---------------------------- MODULE Spec2Model ----------------------------
(***************************************************************************)
(* Model of the command-channel client of the mount manager's web UI       *)
(* (webui/src/lib: the payload codec stringToHex, the RealAPI and MockAPI  *)
(* stacks, and the API facade that binds one of them at module             *)
(* initialization).                                                        *)
(*                                                                         *)
(* Text is modelled as a sequence of UTF-16 code units (naturals), exactly *)
(* what a JavaScript string is; bytes are naturals in 0..255.              *)
(***************************************************************************)
EXTENDS Integers, Sequences, FiniteSets, TLC

(***************************************************************************)
(* Bounds of the model.                                                    *)
(***************************************************************************)
\* longest codec input, in code units
MaxStrLen == 2

\* most steps HymoFSTab takes after it is mounted
MaxTabSteps == 7

(***************************************************************************)
(* Generic text helpers (JavaScript String built-ins).                     *)
(***************************************************************************)
\* all sequences over S of length at most n
RECURSIVE SeqsUpTo(_, _)
SeqsUpTo(S, n) ==
    IF n = 0 THEN {<<>>}
    ELSE LET shorter == SeqsUpTo(S, n - 1)
         IN  shorter \cup {Append(s, c) : s \in {t \in shorter : Len(t) = n - 1}, c \in S}

\* String.prototype.substring(from) / substring(from, to), 0-based, to exclusive
SubstringFrom(s, from) ==
    IF from >= Len(s) THEN <<>> ELSE SubSeq(s, from + 1, Len(s))

Substring(s, from, to) ==
    IF from >= to THEN <<>> ELSE SubSeq(s, from + 1, to)

\* String.prototype.startsWith
StartsWith(s, p) ==
    /\ Len(p) <= Len(s)
    /\ SubSeq(s, 1, Len(p)) = p

\* s has p at 0-based offset i
HasAt(s, p, i) ==
    /\ i + Len(p) <= Len(s)
    /\ SubSeq(s, i + 1, i + Len(p)) = p

\* String.prototype.includes
Includes(s, p) == \E i \in 0..Len(s) : HasAt(s, p, i)

\* white space as String.prototype.trim and the regular expression class \s
\* see it
IsSpace(u) ==
    \/ u \in {9, 10, 11, 12, 13, 32, 160, 5760, 8232, 8233, 8239, 8287, 12288, 65279}
    \/ (u >= 8192 /\ u <= 8202)

\* least and greatest element of a non-empty set of integers
Min(S) == CHOOSE i \in S : \A j \in S : i <= j
Max(S) == CHOOSE i \in S : \A j \in S : i >= j

TrimTo(s, keep) == IF keep = {} THEN <<>> ELSE SubSeq(s, Min(keep), Max(keep))

\* String.prototype.trim
Trim(s) == TrimTo(s, {i \in 1..Len(s) : ~IsSpace(s[i])})

\* String.prototype.split(sep) for a one-unit separator
RECURSIVE SplitFrom(_, _, _)
SplitAt(s, sep, from, hits) ==
    IF hits = {} THEN <<SubSeq(s, from, Len(s))>>
    ELSE <<SubSeq(s, from, Min(hits) - 1)>> \o SplitFrom(s, sep, Min(hits) + 1)

SplitFrom(s, sep, from) == SplitAt(s, sep, from, {i \in from..Len(s) : s[i] = sep})

Split(s, sep) == SplitFrom(s, sep, 1)

\* the unit a case-insensitive regular expression compares: ASCII letters
\* fold to lower case
Fold(u) == IF u >= 65 /\ u <= 90 THEN u + 32 ELSE u

\* s has p at 0-based offset i, letters compared without case
HasAtNoCase(s, p, i) ==
    /\ i + Len(p) <= Len(s)
    /\ \A j \in 1..Len(p) : Fold(s[i + j]) = Fold(p[j])

\* result of a regular expression: whether it matched, and its capture
NoMatch == [ok |-> FALSE, g |-> <<>>]
Match(g) == [ok |-> TRUE, g |-> g]

\* concatenation of the sequences ss[lo], ..., ss[hi]
RECURSIVE ConcatRange(_, _, _)
ConcatRange(ss, lo, hi) ==
    IF lo > hi THEN <<>>
    ELSE IF lo = hi THEN ss[lo]
    ELSE LET mid == (lo + hi) \div 2
         IN  ConcatRange(ss, lo, mid) \o ConcatRange(ss, mid + 1, hi)

Flatten(ss) == ConcatRange(ss, 1, Len(ss))

(***************************************************************************)
(* The payload codec: stringToHex.                                         *)
(***************************************************************************)
IsHighSurrogate(u) == u >= 55296 /\ u <= 56319
IsLowSurrogate(u) == u >= 56320 /\ u <= 57343

\* UTF-8 bytes of one Unicode scalar value
Utf8OfCodePoint(cp) ==
    IF cp < 128 THEN <<cp>>
    ELSE IF cp < 2048 THEN <<192 + (cp \div 64), 128 + (cp % 64)>>
    ELSE IF cp < 65536
         THEN <<224 + (cp \div 4096), 128 + ((cp \div 64) % 64), 128 + (cp % 64)>>
    ELSE <<240 + (cp \div 262144), 128 + ((cp \div 4096) % 64),
           128 + ((cp \div 64) % 64), 128 + (cp % 64)>>

\* the bytes new TextEncoder().encode(str) emits at code unit i: a surrogate
\* pair is combined into one scalar value (its bytes come out at the high
\* surrogate), a lone surrogate is replaced by U+FFFD
EncodeUnitAt(str, i) ==
    LET u == str[i]
    IN  IF IsHighSurrogate(u) /\ i < Len(str) /\ IsLowSurrogate(str[i + 1])
        THEN Utf8OfCodePoint(65536 + (u - 55296) * 1024 + (str[i + 1] - 56320))
        ELSE IF IsLowSurrogate(u) /\ i > 1 /\ IsHighSurrogate(str[i - 1])
        THEN <<>>
        ELSE IF IsHighSurrogate(u) \/ IsLowSurrogate(u)
        THEN Utf8OfCodePoint(65533)
        ELSE Utf8OfCodePoint(u)

TextEncoderEncode(str) == Flatten([i \in 1..Len(str) |-> EncodeUnitAt(str, i)])

\* the branch taken without a TextEncoder: one byte per code unit,
\* bytes[i] = str.charCodeAt(i) & 0xff
CharCodeBytes(str) == [i \in 1..Len(str) |-> str[i] % 256]

\* one hexadecimal digit of Number.prototype.toString(16), as a code unit
HexDigit(n) == IF n < 10 THEN 48 + n ELSE 87 + n

\* bytes[i].toString(16)
ToString16(b) ==
    IF b < 16 THEN <<HexDigit(b)>> ELSE <<HexDigit(b \div 16), HexDigit(b % 16)>>

\* the second loop of stringToHex: h.length === 1 ? "0" + h : h
PadHex(b) == LET h == ToString16(b) IN IF Len(h) = 1 THEN <<48>> \o h ELSE h

BytesToHex(bytes) == Flatten([i \in 1..Len(bytes) |-> PadHex(bytes[i])])

stringToHex(str, textEncoder) ==
    BytesToHex(IF textEncoder THEN TextEncoderEncode(str) ELSE CharCodeBytes(str))

(***************************************************************************)
(* JSON values and the JSON.stringify / JSON.parse built-ins.              *)
(* An object is the sequence of its <<key, value>> properties in insertion *)
(* order, as JavaScript keeps them; an array is a sequence of values.      *)
(***************************************************************************)
JNull == [t |-> "null"]
JUndefined == [t |-> "undefined"]
JBool(b) == [t |-> "bool", b |-> b]
JNum(n) == [t |-> "num", n |-> n]
JStr(s) == [t |-> "str", s |-> s]
JArr(a) == [t |-> "arr", a |-> a]
JObj(props) == [t |-> "obj", p |-> props]

\* Object.keys(o)
Keys(o) == {o.p[i][1] : i \in 1..Len(o.p)}

HasKey(o, k) == o.t = "obj" /\ k \in Keys(o)

\* o[k] (undefined when o has no such property)
Get(o, k) ==
    IF HasKey(o, k)
    THEN LET i == CHOOSE j \in 1..Len(o.p) : o.p[j][1] = k IN o.p[i][2]
    ELSE JUndefined

\* o[k] = v: an existing property keeps its position, a new one is appended
Put(o, k, v) ==
    IF HasKey(o, k)
    THEN JObj([i \in 1..Len(o.p) |-> IF o.p[i][1] = k THEN <<k, v>> ELSE o.p[i]])
    ELSE JObj(Append(o.p, <<k, v>>))

\* own enumerable properties that the spread syntax copies out of a value:
\* those of an object, the indices of an array, nothing for the other values
\* the model parses
SpreadProps(v) ==
    IF v.t = "obj" THEN v.p
    ELSE IF v.t = "arr" THEN [i \in 1..Len(v.a) |-> <<<<47 + i>>, v.a[i]>>]
    ELSE <<>>

RECURSIVE PutAll(_, _)
PutAll(o, props) ==
    IF props = <<>> THEN o
    ELSE PutAll(Put(o, Head(props)[1], Head(props)[2]), Tail(props))

\* { ...a, ...b }
Spread(a, b) == PutAll(PutAll(JObj(<<>>), SpreadProps(a)), SpreadProps(b))

\* equality by value of two flat records, whatever the order of their keys
DeepEqual(a, b) ==
    /\ a.t = "obj" /\ b.t = "obj"
    /\ Keys(a) = Keys(b)
    /\ \A k \in Keys(a) : Get(a, k) = Get(b, k)

\* JavaScript truthiness of a value
Truthy(v) ==
    CASE v.t = "null" -> FALSE
      [] v.t = "undefined" -> FALSE
      [] v.t = "bool" -> v.b
      [] v.t = "num" -> v.n # 0
      [] v.t = "str" -> v.s # <<>>
      [] OTHER -> TRUE

\* four hexadecimal digits of a code unit, for a \uXXXX escape
Hex4(u) ==
    <<HexDigit(u \div 4096), HexDigit((u \div 256) % 16),
      HexDigit((u \div 16) % 16), HexDigit(u % 16)>>

\* JSON.stringify's escape of one code unit of a string (next is the unit
\* after it, prev the one before, 0 at the ends): well-formed output, so a
\* lone surrogate is written as an escape
QuoteUnit(prev, u, next) ==
    IF u = 34 THEN <<92, 34>>
    ELSE IF u = 92 THEN <<92, 92>>
    ELSE IF u = 8 THEN <<92, 98>>
    ELSE IF u = 9 THEN <<92, 116>>
    ELSE IF u = 10 THEN <<92, 110>>
    ELSE IF u = 12 THEN <<92, 102>>
    ELSE IF u = 13 THEN <<92, 114>>
    ELSE IF u < 32 THEN <<92, 117>> \o Hex4(u)
    ELSE IF IsHighSurrogate(u) /\ ~IsLowSurrogate(next) THEN <<92, 117>> \o Hex4(u)
    ELSE IF IsLowSurrogate(u) /\ ~IsHighSurrogate(prev) THEN <<92, 117>> \o Hex4(u)
    ELSE <<u>>

QuoteAt(s, i) ==
    QuoteUnit(IF i = 1 THEN 0 ELSE s[i - 1], s[i], IF i = Len(s) THEN 0 ELSE s[i + 1])

Quote(s) == <<34>> \o Flatten([i \in 1..Len(s) |-> QuoteAt(s, i)]) \o <<34>>

\* decimal digits of a natural
RECURSIVE Digits(_)
Digits(n) == IF n < 10 THEN <<48 + n>> ELSE Digits(n \div 10) \o <<48 + (n % 10)>>

RECURSIVE JSONstringify(_), StringifyProps(_, _), StringifyItems(_, _)
JSONstringify(v) ==
    CASE v.t = "null" -> <<110, 117, 108, 108>>
      [] v.t = "bool" -> IF v.b THEN <<116, 114, 117, 101>> ELSE <<102, 97, 108, 115, 101>>
      [] v.t = "num" -> Digits(v.n)
      [] v.t = "str" -> Quote(v.s)
      [] v.t = "arr" -> <<91>> \o StringifyItems(v.a, TRUE) \o <<93>>
      [] v.t = "obj" -> <<123>> \o StringifyProps(v.p, TRUE) \o <<125>>

\* a property whose value is undefined is left out
StringifyProps(props, first) ==
    IF props = <<>> THEN <<>>
    ELSE IF Head(props)[2].t = "undefined" THEN StringifyProps(Tail(props), first)
    ELSE (IF first THEN <<>> ELSE <<44>>)
             \o Quote(Head(props)[1]) \o <<58>> \o JSONstringify(Head(props)[2])
             \o StringifyProps(Tail(props), FALSE)

StringifyItems(items, first) ==
    IF items = <<>> THEN <<>>
    ELSE (IF first THEN <<>> ELSE <<44>>)
             \o JSONstringify(Head(items)) \o StringifyItems(Tail(items), FALSE)

\* result of a parsing step: ok, the value, and the index after it
ParseFail == [ok |-> FALSE, v |-> JNull, i |-> 0]
ParseOk(v, i) == [ok |-> TRUE, v |-> v, i |-> i]

IsJsonWs(u) == u \in {9, 10, 13, 32}
IsDigit(u) == u >= 48 /\ u <= 57
IsHexDigit(u) == IsDigit(u) \/ (u >= 65 /\ u <= 70) \/ (u >= 97 /\ u <= 102)
IsLowerHexDigit(u) == IsDigit(u) \/ (u >= 97 /\ u <= 102)

HexValue(u) == IF IsDigit(u) THEN u - 48 ELSE IF u >= 97 THEN u - 87 ELSE u - 55

RECURSIVE SkipWs(_, _)
SkipWs(s, i) == IF i <= Len(s) /\ IsJsonWs(s[i]) THEN SkipWs(s, i + 1) ELSE i

\* the unit a one-letter escape stands for, 0 when it is not an escape
EscapeOf(u) ==
    IF u \in {34, 92, 47} THEN u
    ELSE IF u = 98 THEN 8
    ELSE IF u = 102 THEN 12
    ELSE IF u = 110 THEN 10
    ELSE IF u = 114 THEN 13
    ELSE IF u = 116 THEN 9
    ELSE 0

\* the body of a string, i being the index after the opening quote
RECURSIVE ParseStringBody(_, _, _)
ParseStringBody(s, i, acc) ==
    IF i > Len(s) THEN ParseFail
    ELSE IF s[i] = 34 THEN ParseOk(JStr(acc), i + 1)
    ELSE IF s[i] < 32 THEN ParseFail
    ELSE IF s[i] # 92 THEN ParseStringBody(s, i + 1, Append(acc, s[i]))
    ELSE IF i + 1 > Len(s) THEN ParseFail
    ELSE IF s[i + 1] = 117
         THEN IF i + 5 <= Len(s) /\ \A j \in (i + 2)..(i + 5) : IsHexDigit(s[j])
              THEN ParseStringBody(s, i + 6,
                       Append(acc, HexValue(s[i + 2]) * 4096 + HexValue(s[i + 3]) * 256
                                       + HexValue(s[i + 4]) * 16 + HexValue(s[i + 5])))
              ELSE ParseFail
    ELSE IF EscapeOf(s[i + 1]) # 0
         THEN ParseStringBody(s, i + 2, Append(acc, EscapeOf(s[i + 1])))
    ELSE ParseFail

RECURSIVE ParseDigits(_, _, _)
ParseDigits(s, i, n) ==
    IF i <= Len(s) /\ IsDigit(s[i]) THEN ParseDigits(s, i + 1, n * 10 + (s[i] - 48))
    ELSE ParseOk(JNum(n), i)

\* one JSON value starting at index i (numbers: unsigned integers only)
RECURSIVE ParseValue(_, _), ParseItems(_, _, _), ParseProps(_, _, _)

\* after '{' and white space, j at '}' or at the first key
ParseObjectAt(s, j) ==
    IF j <= Len(s) /\ s[j] = 125 THEN ParseOk(JObj(<<>>), j + 1)
    ELSE ParseProps(s, j, JObj(<<>>))

\* after '[' and white space, j at ']' or at the first item
ParseArrayAt(s, j) ==
    IF j <= Len(s) /\ s[j] = 93 THEN ParseOk(JArr(<<>>), j + 1)
    ELSE ParseItems(s, j, <<>>)

ParseValue(s, i) ==
    IF i > Len(s) THEN ParseFail
    ELSE IF s[i] = 34 THEN ParseStringBody(s, i + 1, <<>>)
    ELSE IF s[i] = 123 THEN ParseObjectAt(s, SkipWs(s, i + 1))
    ELSE IF s[i] = 91 THEN ParseArrayAt(s, SkipWs(s, i + 1))
    ELSE IF HasAt(s, <<116, 114, 117, 101>>, i - 1) THEN ParseOk(JBool(TRUE), i + 4)
    ELSE IF HasAt(s, <<102, 97, 108, 115, 101>>, i - 1) THEN ParseOk(JBool(FALSE), i + 5)
    ELSE IF HasAt(s, <<110, 117, 108, 108>>, i - 1) THEN ParseOk(JNull, i + 4)
    ELSE IF IsDigit(s[i]) THEN ParseDigits(s, i, 0)
    ELSE ParseFail

\* after an item, j at ',' or ']'
ItemsNext(s, acc, j) ==
    IF j > Len(s) THEN ParseFail
    ELSE IF s[j] = 93 THEN ParseOk(JArr(acc), j + 1)
    ELSE IF s[j] = 44 THEN ParseItems(s, SkipWs(s, j + 1), acc)
    ELSE ParseFail

ItemsAfterValue(s, acc, r) ==
    IF ~r.ok THEN ParseFail ELSE ItemsNext(s, Append(acc, r.v), SkipWs(s, r.i))

\* the items of an array after '[', i at the first unit of an item
ParseItems(s, i, acc) == ItemsAfterValue(s, acc, ParseValue(s, i))

\* after a property, j at ',' or '}'
PropsNext(s, obj, j) ==
    IF j > Len(s) THEN ParseFail
    ELSE IF s[j] = 125 THEN ParseOk(obj, j + 1)
    ELSE IF s[j] = 44 THEN ParseProps(s, SkipWs(s, j + 1), obj)
    ELSE ParseFail

PropsAfterValue(s, obj, key, r) ==
    IF ~r.ok THEN ParseFail ELSE PropsNext(s, Put(obj, key, r.v), SkipWs(s, r.i))

\* after a key, c at ':'
PropsColon(s, obj, key, c) ==
    IF c > Len(s) \/ s[c] # 58 THEN ParseFail
    ELSE PropsAfterValue(s, obj, key, ParseValue(s, SkipWs(s, c + 1)))

PropsAfterKey(s, obj, k) ==
    IF ~k.ok THEN ParseFail ELSE PropsColon(s, obj, k.v.s, SkipWs(s, k.i))

\* the properties of an object after '{', i at the opening quote of a key
ParseProps(s, i, obj) ==
    IF i > Len(s) \/ s[i] # 34 THEN ParseFail
    ELSE PropsAfterKey(s, obj, ParseStringBody(s, i + 1, <<>>))

\* nothing but white space may follow the value
ParseWhole(text, r) ==
    IF r.ok /\ SkipWs(text, r.i) = Len(text) + 1 THEN r ELSE ParseFail

\* JSON.parse(text): ok = FALSE stands for the SyntaxError it throws
JSONparse(text) == ParseWhole(text, ParseValue(text, SkipWs(text, 1)))

(***************************************************************************)
(* String literals of the source, as code units.                           *)
(***************************************************************************)
\* "moduledir", "partitions", "disable_umount", "logfile", "hymofs_debug":
\* the keys of AppConfig the model carries (a string, a list, a flag and two
\* optional fields)
K_moduledir == <<109, 111, 100, 117, 108, 101, 100, 105, 114>>
K_partitions == <<112, 97, 114, 116, 105, 116, 105, 111, 110, 115>>
K_disable_umount == <<100, 105, 115, 97, 98, 108, 101, 95, 117, 109, 111, 117, 110, 116>>
K_logfile == <<108, 111, 103, 102, 105, 108, 101>>
K_hymofs_debug == <<104, 121, 109, 111, 102, 115, 95, 100, 101, 98, 117, 103>>

\* "No KSU environment"
MsgNoKsu == <<78, 111, 32, 75, 83, 85, 32, 101, 110, 118, 105, 114, 111, 110, 109, 101, 110, 116>>
\* "Failed to save config: "
MsgSaveConfig == <<70, 97, 105, 108, 101, 100, 32, 116, 111, 32, 115, 97, 118, 101, 32, 99, 111, 110, 102, 105, 103, 58, 32>>
\* "Failed to reset config: "
MsgResetConfig == <<70, 97, 105, 108, 101, 100, 32, 116, 111, 32, 114, 101, 115, 101, 116, 32, 99, 111, 110, 102, 105, 103, 58, 32>>
\* "Failed to save rules: "
MsgSaveRules == <<70, 97, 105, 108, 101, 100, 32, 116, 111, 32, 115, 97, 118, 101, 32, 114, 117, 108, 101, 115, 58, 32>>

(***************************************************************************)
(* The compiled-in defaults (lib/constants.ts).                            *)
(***************************************************************************)
\* DEFAULT_CONFIG: { moduledir: "/m", partitions: [], disable_umount: false,
\* logfile: "/l" }
DEFAULT_CONFIG ==
    JObj(<< <<K_moduledir, JStr(<<47, 109>>)>>,
            <<K_partitions, JArr(<<>>)>>,
            <<K_disable_umount, JBool(FALSE)>>,
            <<K_logfile, JStr(<<47, 108>>)>> >>)

\* APP_VERSION (lib/constants_gen.ts): "v1"
APP_VERSION == <<118, 49>>

(***************************************************************************)
(* The execution capability and the privileged binary behind it.           *)
(***************************************************************************)
\* the value ksuExec resolves to, or the fact that the call rejected
Threw == [threw |-> TRUE, errno |-> 0, stdout |-> <<>>, stderr |-> <<>>]
Exited(errno, stdout, stderr) ==
    [threw |-> FALSE, errno |-> errno, stdout |-> stdout, stderr |-> stderr]

\* non-zero exit codes the model draws
FailCodes == {1, 255}

\* stderr texts the model draws: "", "disk full", "E"
StderrTexts == {<<>>, <<100, 105, 115, 107, 32, 102, 117, 108, 108>>, <<69>>}

\* hex token -> bytes, as the binary decodes --payload
HexDecode(hex) ==
    IF Len(hex) % 2 = 0 /\ \A i \in 1..Len(hex) : IsHexDigit(hex[i])
    THEN [ok |-> TRUE,
          bytes |-> [i \in 1..(Len(hex) \div 2) |->
                        HexValue(hex[2 * i - 1]) * 16 + HexValue(hex[2 * i])]]
    ELSE [ok |-> FALSE, bytes |-> <<>>]

IsCont(b) == b >= 128 /\ b <= 191

\* code units of one Unicode scalar value
UnitsOfCodePoint(cp) ==
    IF cp < 65536 THEN <<cp>>
    ELSE <<55296 + ((cp - 65536) \div 1024), 56320 + ((cp - 65536) % 1024)>>

\* number of bytes the sequence led by b takes, 0 when b cannot lead one
Utf8SeqLen(b) ==
    IF b < 128 THEN 1
    ELSE IF b >= 194 /\ b <= 223 THEN 2
    ELSE IF b >= 224 /\ b <= 239 THEN 3
    ELSE IF b >= 240 /\ b <= 244 THEN 4
    ELSE 0

\* byte i is well placed: a continuation byte follows another byte, a lead
\* byte is followed by exactly the continuation bytes it announces
Utf8ValidAt(bytes, i) ==
    LET b == bytes[i]
        n == Utf8SeqLen(b)
    IN  IF IsCont(b) THEN i > 1
        ELSE /\ n > 0
             /\ i + n - 1 <= Len(bytes)
             /\ \A j \in (i + 1)..(i + n - 1) : IsCont(bytes[j])
             /\ (i + n <= Len(bytes) => ~IsCont(bytes[i + n]))

\* the code units decoded at byte i (nothing at a continuation byte)
Utf8DecodeAt(bytes, i) ==
    LET b == bytes[i]
        n == Utf8SeqLen(b)
    IN  IF IsCont(b) THEN <<>>
        ELSE IF n = 1 THEN <<b>>
        ELSE IF n = 2 THEN <<(b - 192) * 64 + (bytes[i + 1] - 128)>>
        ELSE IF n = 3
             THEN <<(b - 224) * 4096 + (bytes[i + 1] - 128) * 64 + (bytes[i + 2] - 128)>>
        ELSE UnitsOfCodePoint((b - 240) * 262144 + (bytes[i + 1] - 128) * 4096
                                  + (bytes[i + 2] - 128) * 64 + (bytes[i + 3] - 128))

\* strict UTF-8 decoding of the payload bytes
Utf8Decode(bytes) ==
    IF \A i \in 1..Len(bytes) : Utf8ValidAt(bytes, i)
    THEN [ok |-> TRUE, s |-> Flatten([i \in 1..Len(bytes) |-> Utf8DecodeAt(bytes, i)])]
    ELSE [ok |-> FALSE, s |-> <<>>]

\* the text the payload bytes decode to, when the token was hexadecimal
TextOfBytes(d) == IF d.ok THEN Utf8Decode(d.bytes) ELSE [ok |-> FALSE, s |-> <<>>]

\* the binary accepts the text when it is JSON
AcceptText(t) ==
    [ok |-> IF t.ok THEN JSONparse(t.s).ok ELSE FALSE, text |-> t.s]

\* the JSON text a --payload token carries, if it carries one
DecodePayload(hex) == AcceptText(TextOfBytes(HexDecode(hex)))

(***************************************************************************)
(* State.                                                                  *)
(***************************************************************************)
VARIABLES
    hasTextEncoder,   \* typeof TextEncoder !== "undefined" in this runtime
    hexPc,            \* codec harness: "input" before the call, "done" after
    hexA, hexB,       \* codec harness: two input strings
    hexOutA, hexOutB, \* codec harness: their tokens
    DEV,              \* import.meta.env.DEV
    ksuExec,          \* TRUE when the kernelsu import gave an exec function
    API,              \* the exported binding: "RealAPI" or "MockAPI"
    remoteConfig,     \* the configuration text the binary holds
    lastSaved,        \* the record of the last saveConfig that succeeded
                      \* with no write after it
    pc,               \* "idle", the await the running call is suspended at, or
                      \* "done" when its promise has settled
    op,               \* the operation of the running or last call
    arg,              \* its argument
    loc,              \* its local variables
    cmds,             \* the commands it has issued so far
    resps,            \* what the capability answered to each
    out,              \* how the last call ended
    mounted,          \* the HymoFSTab component is mounted
    store_config,     \* store.config
    store_loading,    \* store.loading.config
    store_saving,     \* store.saving.config
    initialConfigStr, \* the dirty-check snapshot signal of HymoFSTab
    loadCall,         \* a store.loadConfig() promise is pending
    saveCall,         \* the config a pending store.saveConfig() is sending
    synced,           \* the config of the last load or save that succeeded
    tabSteps          \* how many steps the tab has taken

tabVars ==
    <<mounted, store_config, store_loading, store_saving, initialConfigStr,
      loadCall, saveCall, synced, tabSteps>>
codecVars == <<hexPc, hexA, hexB, hexOutA, hexOutB>>
envVars == <<hasTextEncoder, DEV, ksuExec, API>>
callVars == <<pc, op, arg, loc, cmds, resps, out>>
vars == <<codecVars, envVars, remoteConfig, lastSaved, callVars, tabVars>>

NoArg == JUndefined
NoLoc == [none |-> TRUE]
NoSave == [some |-> FALSE, c |-> JUndefined]
Pending == [kind |-> "pending", val |-> JUndefined]
Returned(v) == [kind |-> "return", val |-> v]
Thrown(msg) == [kind |-> "throw", val |-> JStr(msg)]

\* the call runs up to an await of ksuExec(cmd)
Await(label, name, a, l, cmd) ==
    /\ pc' = label
    /\ op' = name
    /\ arg' = a
    /\ loc' = l
    /\ cmds' = <<cmd>>
    /\ resps' = <<>>
    /\ out' = Pending

\* the call ends without having awaited anything
Immediate(name, a, o) ==
    /\ pc' = "done"
    /\ op' = name
    /\ arg' = a
    /\ loc' = NoLoc
    /\ cmds' = <<>>
    /\ resps' = <<>>
    /\ out' = o

\* the call ends after the capability answered r
Finish(r, o) ==
    /\ pc' = "done"
    /\ resps' = Append(resps, r)
    /\ out' = o
    /\ UNCHANGED <<op, arg, loc, cmds>>

\* the caller takes the outcome of the settled promise and goes on
Settle ==
    /\ pc = "done"
    /\ pc' = "idle"
    /\ op' = "none"
    /\ arg' = NoArg
    /\ loc' = NoLoc
    /\ cmds' = <<>>
    /\ resps' = <<>>
    /\ out' = Pending
    /\ UNCHANGED <<codecVars, envVars, remoteConfig, lastSaved, tabVars>>

(***************************************************************************)
(* Inputs.                                                                 *)
(***************************************************************************)
\* fully populated configuration records handed to saveConfig: the defaults
\* with moduledir "/A" and disable_umount set, with moduledir "/" + L-stroke,
\* with moduledir "/" + e-acute, and with moduledir '/"' and hymofs_debug
ConfigArgs ==
    {Put(Put(DEFAULT_CONFIG, K_moduledir, JStr(<<47, 65>>)), K_disable_umount, JBool(TRUE)),
     Put(DEFAULT_CONFIG, K_moduledir, JStr(<<47, 321>>)),
     Put(DEFAULT_CONFIG, K_moduledir, JStr(<<47, 233>>)),
     Put(Put(DEFAULT_CONFIG, K_moduledir, JStr(<<47, 34>>)), K_hymofs_debug, JBool(TRUE))}

\* partial records a configuration file may hold
PartialConfigs ==
    {JObj(<< <<K_moduledir, JStr(<<47, 65>>)>> >>),
     JObj(<< <<K_hymofs_debug, JBool(TRUE)>>, <<K_logfile, JStr(<<>>)>>,
             <<K_partitions, JArr(<<JStr(<<120>>)>>)>> >>)}

\* texts the binary may print for show-config at start: a record, nothing,
\* "{" and "null"
ConfigTexts ==
    {JSONstringify(r) : r \in PartialConfigs}
        \cup {<<>>, <<123>>, <<110, 117, 108, 108>>}

(***************************************************************************)
(* Module initialization (api.ts top level).                               *)
(***************************************************************************)
shouldUseMock(dev, exec) == dev \/ ~exec

Binding_ignoresDev(dev, exec) == IF ~exec THEN "MockAPI" ELSE "RealAPI"

Binding(dev, exec) == IF shouldUseMock(dev, exec) THEN "MockAPI" ELSE "RealAPI"

\* no HymoFSTab is mounted
TabUnmounted ==
    /\ mounted = FALSE
    /\ store_config = JNull
    /\ store_loading = FALSE
    /\ store_saving = FALSE
    /\ initialConfigStr = <<>>
    /\ loadCall = FALSE
    /\ saveCall = NoSave
    /\ synced = NoSave
    /\ tabSteps = 0

Init ==
    /\ hasTextEncoder \in BOOLEAN
    /\ DEV \in BOOLEAN
    /\ ksuExec \in BOOLEAN
    /\ API = Binding(DEV, ksuExec)
    /\ remoteConfig \in ConfigTexts
    /\ lastSaved = NoSave
    /\ pc = "idle"
    /\ op = "none"
    /\ arg = NoArg
    /\ loc = NoLoc
    /\ cmds = <<>>
    /\ resps = <<>>
    /\ out = Pending
    /\ hexPc = "off"
    /\ hexA = <<>>
    /\ hexB = <<>>
    /\ hexOutA = <<>>
    /\ hexOutB = <<>>
    /\ TabUnmounted

(***************************************************************************)
(* RealAPI: the configuration service.                                     *)
(***************************************************************************)
\* what `<binary> show-config` may answer
ShowConfigResults ==
    {Threw}
        \cup {Exited(0, remoteConfig, <<>>)}
        \cup {Exited(e, t, <<69>>) : e \in FailCodes, t \in {<<>>, remoteConfig}}

Real_loadConfig ==
    /\ pc = "idle"
    /\ API = "RealAPI"
    /\ IF ~ksuExec
       THEN Immediate("loadConfig", NoArg, Returned(DEFAULT_CONFIG))
       ELSE Await("loadConfig", "loadConfig", NoArg, NoLoc, [name |-> "show-config"])
    /\ UNCHANGED <<codecVars, envVars, remoteConfig, lastSaved, tabVars>>

\* return { ...DEFAULT_CONFIG, ...loaded }, a SyntaxError being caught
mergeLoaded_defaultsWin(loaded) ==
    IF loaded.ok THEN Spread(loaded.v, DEFAULT_CONFIG) ELSE DEFAULT_CONFIG

mergeLoaded(loaded) ==
    IF loaded.ok THEN Spread(DEFAULT_CONFIG, loaded.v) ELSE DEFAULT_CONFIG

\* the value loadConfig returns once ksuExec settled with r
loadConfigResult(r) ==
    IF r.threw THEN DEFAULT_CONFIG
    ELSE IF r.errno = 0 /\ r.stdout # <<>> THEN mergeLoaded(JSONparse(r.stdout))
    ELSE DEFAULT_CONFIG

Real_loadConfig_await ==
    /\ pc = "loadConfig"
    /\ \E r \in ShowConfigResults : Finish(r, Returned(loadConfigResult(r)))
    /\ UNCHANGED <<codecVars, envVars, remoteConfig, lastSaved, tabVars>>

\* what `<binary> save-config --payload <hex>` may answer: the call rejects,
\* the binary fails, or it stores the decoded payload
SaveConfigResults(hex) ==
    {Threw}
        \cup {Exited(e, <<>>, t) : e \in FailCodes, t \in StderrTexts}
        \cup (IF DecodePayload(hex).ok THEN {Exited(0, <<>>, <<>>)} ELSE {})

Real_saveConfig ==
    /\ pc = "idle"
    /\ API = "RealAPI"
    /\ \E config \in ConfigArgs :
           IF ~ksuExec
           THEN Immediate("saveConfig", config, Thrown(MsgNoKsu))
           ELSE LET jsonStr == JSONstringify(config)
                    hexPayload == stringToHex(jsonStr, hasTextEncoder)
                IN  Await("saveConfig", "saveConfig", config, NoLoc,
                          [name |-> "save-config", payload |-> hexPayload])
    /\ UNCHANGED <<codecVars, envVars, remoteConfig, lastSaved, tabVars>>

\* how a write ends once ksuExec settled with r: the rejection passes
\* through, a non-zero exit becomes an Error carrying stderr
writeOutcome_ignoresExit(r, prefix) ==
    IF r.threw THEN [kind |-> "throw", val |-> JUndefined]
    ELSE Returned(JUndefined)

writeOutcome(r, prefix) ==
    IF r.threw THEN [kind |-> "throw", val |-> JUndefined]
    ELSE IF r.errno # 0 THEN Thrown(prefix \o r.stderr)
    ELSE Returned(JUndefined)

Real_saveConfig_await ==
    /\ pc = "saveConfig"
    /\ \E r \in SaveConfigResults(cmds[1].payload) :
           /\ Finish(r, writeOutcome(r, MsgSaveConfig))
           /\ IF ~r.threw /\ r.errno = 0
              THEN /\ remoteConfig' = DecodePayload(cmds[1].payload).text
                   /\ lastSaved' = [some |-> TRUE, c |-> arg]
              ELSE UNCHANGED <<remoteConfig, lastSaved>>
    /\ UNCHANGED <<codecVars, envVars, tabVars>>

\* what `<binary> gen-config` may answer
GenConfigResults ==
    {Threw, Exited(0, <<>>, <<>>)}
        \cup {Exited(e, <<>>, t) : e \in FailCodes, t \in StderrTexts}

Real_resetConfig ==
    /\ pc = "idle"
    /\ API = "RealAPI"
    /\ IF ~ksuExec
       THEN Immediate("resetConfig", NoArg, Thrown(MsgNoKsu))
       ELSE Await("resetConfig", "resetConfig", NoArg, NoLoc, [name |-> "gen-config"])
    /\ UNCHANGED <<codecVars, envVars, remoteConfig, lastSaved, tabVars>>

Real_resetConfig_await ==
    /\ pc = "resetConfig"
    /\ \E r \in GenConfigResults :
           /\ Finish(r, writeOutcome(r, MsgResetConfig))
           /\ IF ~r.threw /\ r.errno = 0
              THEN /\ remoteConfig' = JSONstringify(DEFAULT_CONFIG)
                   /\ lastSaved' = NoSave
              ELSE UNCHANGED <<remoteConfig, lastSaved>>
    /\ UNCHANGED <<codecVars, envVars, tabVars>>

(***************************************************************************)
(* RealAPI: modules, logs and module rules.                                *)
(***************************************************************************)
\* texts `<binary> modules` may print: "[]", a one-module list, "null", "["
ModulesTexts ==
    {<<91, 93>>, <<91, 123, 34, 105, 100, 34, 58, 34, 109, 49, 34, 44, 34, 109, 111, 100, 101, 34, 58, 34, 109, 97, 103, 105, 99, 34, 125, 93>>, <<110, 117, 108, 108>>, <<91>>}

ModulesResults ==
    {Threw}
        \cup {Exited(0, t, <<>>) : t \in ModulesTexts \cup {<<>>}}
        \cup {Exited(e, t, <<69>>) : e \in FailCodes, t \in {<<>>, <<91, 93>>}}

Real_scanModules ==
    /\ pc = "idle"
    /\ API = "RealAPI"
    /\ IF ~ksuExec
       THEN Immediate("scanModules", NoArg, Returned(JArr(<<>>)))
       ELSE Await("scanModules", "scanModules", NoArg, NoLoc, [name |-> "modules"])
    /\ UNCHANGED <<codecVars, envVars, remoteConfig, lastSaved, tabVars>>

parsedModules(parsed) == IF parsed.ok THEN parsed.v ELSE JArr(<<>>)

scanModulesResult(r) ==
    IF r.threw THEN JArr(<<>>)
    ELSE IF r.errno = 0 /\ r.stdout # <<>> THEN parsedModules(JSONparse(r.stdout))
    ELSE JArr(<<>>)

Real_scanModules_await ==
    /\ pc = "scanModules"
    /\ \E r \in ModulesResults : Finish(r, Returned(scanModulesResult(r)))
    /\ UNCHANGED <<codecVars, envVars, remoteConfig, lastSaved, tabVars>>

Real_saveModules ==
    /\ pc = "idle"
    /\ API = "RealAPI"
    /\ Immediate("saveModules", NoArg, Returned(JUndefined))
    /\ UNCHANGED <<codecVars, envVars, remoteConfig, lastSaved, tabVars>>

\* what `cat "<logfile>"` may answer: "", "log\n"
LogResults ==
    {Threw}
        \cup {Exited(0, t, <<>>) : t \in {<<>>, <<108, 111, 103, 10>>}}
        \cup {Exited(e, t, <<69>>) : e \in FailCodes, t \in {<<>>, <<108, 111, 103, 10>>}}

Real_readLogs ==
    /\ pc = "idle"
    /\ API = "RealAPI"
    /\ IF ~ksuExec
       THEN Immediate("readLogs", NoArg, Returned(JStr(<<>>)))
       ELSE Await("readLogs", "readLogs", NoArg, NoLoc,
                  [name |-> "cat", file |-> Get(DEFAULT_CONFIG, K_logfile)])
    /\ UNCHANGED <<codecVars, envVars, remoteConfig, lastSaved, tabVars>>

readLogsResult(r) ==
    IF ~r.threw /\ r.errno = 0 /\ r.stdout # <<>> THEN JStr(r.stdout) ELSE JStr(<<>>)

Real_readLogs_await ==
    /\ pc = "readLogs"
    /\ \E r \in LogResults : Finish(r, Returned(readLogsResult(r)))
    /\ UNCHANGED <<codecVars, envVars, remoteConfig, lastSaved, tabVars>>

\* module ids and rule sets handed to saveModuleRules: "m1" and 'm"2';
\* { default_mode: "overlay", paths: {} } and
\* { default_mode: "magic", paths: { "system/" + L-stroke: "hymofs" } }
ModuleIds == {<<109, 49>>, <<109, 34, 50>>}

RuleSets ==
    {JObj(<< <<<<100, 101, 102, 97, 117, 108, 116, 95, 109, 111, 100, 101>>, JStr(<<111, 118, 101, 114, 108, 97, 121>>)>>, <<<<112, 97, 116, 104, 115>>, JObj(<<>>)>> >>),
     JObj(<< <<<<100, 101, 102, 97, 117, 108, 116, 95, 109, 111, 100, 101>>, JStr(<<109, 97, 103, 105, 99>>)>>,
             <<<<112, 97, 116, 104, 115>>, JObj(<< <<<<115, 121, 115, 116, 101, 109, 47>> \o <<321>>, JStr(<<104, 121, 109, 111, 102, 115>>)>> >>)>> >>)}

\* what `<binary> save-module-rules ...` may answer
SaveRulesResults(hex) ==
    {Threw}
        \cup {Exited(e, <<>>, t) : e \in FailCodes, t \in StderrTexts}
        \cup (IF DecodePayload(hex).ok THEN {Exited(0, <<>>, <<>>)} ELSE {})

Real_saveModuleRules ==
    /\ pc = "idle"
    /\ API = "RealAPI"
    /\ \E moduleId \in ModuleIds, rules \in RuleSets :
           LET a == [moduleId |-> moduleId, rules |-> rules]
           IN  IF ~ksuExec
               THEN Immediate("saveModuleRules", a, Thrown(MsgNoKsu))
               ELSE LET jsonStr == JSONstringify(rules)
                        hexPayload == stringToHex(jsonStr, hasTextEncoder)
                    IN  Await("saveModuleRules", "saveModuleRules", a, NoLoc,
                              [name |-> "save-module-rules", module |-> moduleId,
                               payload |-> hexPayload])
    /\ UNCHANGED <<codecVars, envVars, remoteConfig, lastSaved, tabVars>>

Real_saveModuleRules_await ==
    /\ pc = "saveModuleRules"
    /\ \E r \in SaveRulesResults(cmds[1].payload) :
           Finish(r, writeOutcome(r, MsgSaveRules))
    /\ UNCHANGED <<codecVars, envVars, remoteConfig, lastSaved, tabVars>>

(***************************************************************************)
(* RealAPI: openLink and reboot.                                           *)
(***************************************************************************)
\* what a command whose output is not read may answer
PlainResults == {Threw, Exited(0, <<>>, <<>>)} \cup {Exited(e, <<>>, <<69>>) : e \in FailCodes}

\* url.replace(/"/g, '\\"')
EscapeQuotes(url) ==
    Flatten([i \in 1..Len(url) |-> IF url[i] = 34 THEN <<92, 34>> ELSE <<url[i]>>])

\* urls handed to openLink: "http://a" and 'x"y'
Urls == {<<104, 116, 116, 112, 58, 47, 47, 97>>, <<120, 34, 121>>}

Real_openLink ==
    /\ pc = "idle"
    /\ API = "RealAPI"
    /\ \E url \in Urls :
           IF ~ksuExec
           THEN Immediate("openLink", JStr(url), Returned(JUndefined))
           ELSE Await("openLink", "openLink", JStr(url), NoLoc,
                      [name |-> "am start", url |-> EscapeQuotes(url)])
    /\ UNCHANGED <<codecVars, envVars, remoteConfig, lastSaved, tabVars>>

\* `await ksuExec(...)` with the result dropped: only a rejection shows
passThrough(r) ==
    IF r.threw THEN [kind |-> "throw", val |-> JUndefined] ELSE Returned(JUndefined)

Real_openLink_await ==
    /\ pc = "openLink"
    /\ \E r \in PlainResults : Finish(r, passThrough(r))
    /\ UNCHANGED <<codecVars, envVars, remoteConfig, lastSaved, tabVars>>

Real_reboot ==
    /\ pc = "idle"
    /\ API = "RealAPI"
    /\ IF ~ksuExec
       THEN Immediate("reboot", NoArg, Returned(JUndefined))
       ELSE Await("reboot", "reboot", NoArg, NoLoc, [name |-> "reboot"])
    /\ UNCHANGED <<codecVars, envVars, remoteConfig, lastSaved, tabVars>>

Real_reboot_await ==
    /\ pc = "reboot"
    /\ \E r \in PlainResults : Finish(r, passThrough(r))
    /\ UNCHANGED <<codecVars, envVars, remoteConfig, lastSaved, tabVars>>

(***************************************************************************)
(* RealAPI: the status aggregator.                                         *)
(***************************************************************************)
\* keys of the daemon state file
K_storage_mode == <<115, 116, 111, 114, 97, 103, 101, 95, 109, 111, 100, 101>>
K_mount_point == <<109, 111, 117, 110, 116, 95, 112, 111, 105, 110, 116>>
K_active_mounts == <<97, 99, 116, 105, 118, 101, 95, 109, 111, 117, 110, 116, 115>>
K_zygisksu_enforce == <<122, 121, 103, 105, 115, 107, 115, 117, 95, 101, 110, 102, 111, 114, 99, 101>>
K_tmpfs_xattr_supported == <<116, 109, 112, 102, 115, 95, 120, 97, 116, 116, 114, 95, 115, 117, 112, 112, 111, 114, 116, 101, 100>>

\* texts `cat "<daemon state file>"` may print: a full state, a state with
\* no mount facts, "null", "{" and nothing
StateTexts ==
    {<<123, 34, 115, 116, 111, 114, 97, 103, 101, 95, 109, 111, 100, 101, 34, 58, 34, 116, 109, 112, 102, 115, 34, 44, 34, 109, 111, 117, 110, 116, 95, 112, 111, 105, 110, 116, 34, 58, 34, 47, 109, 110, 116, 34, 44, 34, 97, 99, 116, 105, 118, 101, 95, 109, 111, 117, 110, 116, 115, 34, 58, 91, 34, 115, 121, 115, 116, 101, 109, 34, 93, 44, 34, 122, 121, 103, 105, 115, 107, 115, 117, 95, 101, 110, 102, 111, 114, 99, 101, 34, 58, 116, 114, 117, 101, 44, 34, 116, 109, 112, 102, 115, 95, 120, 97, 116, 116, 114, 95, 115, 117, 112, 112, 111, 114, 116, 101, 100, 34, 58, 102, 97, 108, 115, 101, 125>>,
     <<123, 34, 122, 121, 103, 105, 115, 107, 115, 117, 95, 101, 110, 102, 111, 114, 99, 101, 34, 58, 102, 97, 108, 115, 101, 125>>,
     <<110, 117, 108, 108>>, <<123>>, <<>>}

StateResults ==
    {Threw}
        \cup {Exited(0, t, <<>>) : t \in StateTexts}
        \cup {Exited(e, t, <<69>>) : e \in {1}, t \in {<<>>, <<123, 34, 122, 121, 103, 105, 115, 107, 115, 117, 95, 101, 110, 102, 111, 114, 99, 101, 34, 58, 102, 97, 108, 115, 101, 125>>}}

\* reading a property of v throws a TypeError
PropThrows(v) == v.t \in {"null", "undefined"}

Real_getStorageUsage ==
    /\ pc = "idle"
    /\ API = "RealAPI"
    /\ IF ~ksuExec
       THEN Immediate("getStorageUsage", NoArg, Returned([type |-> JNull]))
       ELSE Await("getStorageUsage", "getStorageUsage", NoArg, NoLoc,
                  [name |-> "cat", file |-> "DAEMON_STATE"])
    /\ UNCHANGED <<codecVars, envVars, remoteConfig, lastSaved, tabVars>>

\* state.storage_mode || "unknown"
storageModeOr(mode) == IF Truthy(mode) THEN mode ELSE JStr(<<117, 110, 107, 110, 111, 119, 110>>)

\* the value built from the parsed state file, a SyntaxError or TypeError
\* being caught
storageOfState(state) ==
    IF state.ok /\ ~PropThrows(state.v)
    THEN [type |-> storageModeOr(Get(state.v, K_storage_mode))]
    ELSE [type |-> JNull]

getStorageUsageResult(r) ==
    IF ~r.threw /\ r.errno = 0 /\ r.stdout # <<>>
    THEN storageOfState(JSONparse(r.stdout))
    ELSE [type |-> JNull]

Real_getStorageUsage_await ==
    /\ pc = "getStorageUsage"
    /\ \E r \in StateResults : Finish(r, Returned(getStorageUsageResult(r)))
    /\ UNCHANGED <<codecVars, envVars, remoteConfig, lastSaved, tabVars>>

\* { kernel: "-", selinux: "-", mountBase: "-", activeMounts: [] }
SentinelInfo ==
    [kernel |-> JStr(<<45>>), selinux |-> JStr(<<45>>), mountBase |-> JStr(<<45>>),
     activeMounts |-> JArr(<<>>)]

\* texts the KERNEL:/SELINUX: command may print
SysTexts ==
    {<<75, 69, 82, 78, 69, 76, 58, 53, 46, 49, 48, 10, 83, 69, 76, 73, 78, 85, 88, 58, 69, 110, 102, 111, 114, 99, 105, 110, 103, 10>>, <<75, 69, 82, 78, 69, 76, 58, 32, 54, 46, 49, 32, 10>>, <<117, 110, 97, 109, 101, 58, 32, 110, 111, 116, 32, 102, 111, 117, 110, 100, 10>>, <<>>}

SysResults ==
    {Threw}
        \cup {Exited(0, t, <<>>) : t \in SysTexts}
        \cup {Exited(1, t, <<69>>) : t \in {<<>>, <<75, 69, 82, 78, 69, 76, 58, 53, 46, 49, 48, 10, 83, 69, 76, 73, 78, 85, 88, 58, 69, 110, 102, 111, 114, 99, 105, 110, 103, 10>>}}

\* one iteration of the forEach over outSys.split("\n")
ApplyTaggedLine(info, line) ==
    IF StartsWith(line, <<75, 69, 82, 78, 69, 76, 58>>)
    THEN [info EXCEPT !.kernel = JStr(Trim(SubstringFrom(line, 7)))]
    ELSE IF StartsWith(line, <<83, 69, 76, 73, 78, 85, 88, 58>>)
    THEN [info EXCEPT !.selinux = JStr(Trim(SubstringFrom(line, 8)))]
    ELSE info

\* the forEach over outSys.split("\n"): a later tagged line overwrites an
\* earlier one
RECURSIVE ApplyTaggedLines(_, _)
ApplyTaggedLines(info, lines) ==
    IF lines = <<>> THEN info
    ELSE ApplyTaggedLines(ApplyTaggedLine(info, Head(lines)), Tail(lines))

\* info after the first command settled with r (r did not reject)
infoAfterSys(r) ==
    IF r.errno = 0 /\ r.stdout # <<>>
    THEN ApplyTaggedLines(SentinelInfo, Split(r.stdout, 10))
    ELSE SentinelInfo

\* info.mountBase = state.mount_point || "Unknown";
\* info.activeMounts = state.active_mounts || []
withMounts(info, mp, am) ==
    [info EXCEPT !.mountBase = IF Truthy(mp) THEN mp ELSE JStr(<<85, 110, 107, 110, 111, 119, 110>>),
                 !.activeMounts = IF Truthy(am) THEN am ELSE JArr(<<>>)]

\* if (state.zygisksu_enforce !== undefined) info.zygisksuEnforce = ... ? "1" : "0"
withZygisksu(info, ze) ==
    IF ze # JUndefined
    THEN [zygisksuEnforce |-> IF Truthy(ze) THEN JStr(<<49>>) ELSE JStr(<<48>>)] @@ info
    ELSE info

\* if (state.tmpfs_xattr_supported !== undefined) info.tmpfs_xattr_supported = ...
withXattr(info, tx) ==
    IF tx # JUndefined THEN [tmpfs_xattr_supported |-> tx] @@ info ELSE info

\* the inner try block: a SyntaxError, or the TypeError of reading a property
\* of null, leaves info as it was
infoOfState(info, state) ==
    IF state.ok /\ ~PropThrows(state.v)
    THEN withXattr(
             withZygisksu(
                 withMounts(info, Get(state.v, K_mount_point),
                            Get(state.v, K_active_mounts)),
                 Get(state.v, K_zygisksu_enforce)),
             Get(state.v, K_tmpfs_xattr_supported))
    ELSE info

\* info after the state file command settled with r (r did not reject)
infoAfterState(info, r) ==
    IF r.errno = 0 /\ r.stdout # <<>> THEN infoOfState(info, JSONparse(r.stdout))
    ELSE info

Real_getSystemInfo ==
    /\ pc = "idle"
    /\ API = "RealAPI"
    /\ IF ~ksuExec
       THEN Immediate("getSystemInfo", NoArg, Returned(SentinelInfo))
       ELSE \E a1 \in SysResults, a2 \in StateResults :
                Await("getSystemInfo:sys", "getSystemInfo", NoArg,
                      [answers |-> <<a1, a2>>, info |-> SentinelInfo],
                      [name |-> "echo KERNEL/SELINUX"])
    /\ UNCHANGED <<codecVars, envVars, remoteConfig, lastSaved, tabVars>>

Real_getSystemInfo_sys ==
    /\ pc = "getSystemInfo:sys"
    /\ LET r == loc.answers[1]
       IN  IF r.threw
           THEN Finish(r, Returned(SentinelInfo))
           ELSE /\ pc' = "getSystemInfo:state"
                /\ loc' = [loc EXCEPT !.info = infoAfterSys(r)]
                /\ cmds' = Append(cmds, [name |-> "cat", file |-> "DAEMON_STATE"])
                /\ resps' = Append(resps, r)
                /\ UNCHANGED <<op, arg, out>>
    /\ UNCHANGED <<codecVars, envVars, remoteConfig, lastSaved, tabVars>>

Real_getSystemInfo_state ==
    /\ pc = "getSystemInfo:state"
    /\ LET r == loc.answers[2]
       IN  IF r.threw
           THEN Finish(r, Returned(SentinelInfo))
           ELSE Finish(r, Returned(infoAfterState(loc.info, r)))
    /\ UNCHANGED <<codecVars, envVars, remoteConfig, lastSaved, tabVars>>

\* the four property queries of getDeviceStatus, in the order they are issued
DeviceCmds ==
    <<"getprop ro.product.model", "getprop ro.build.version.release",
      "getprop ro.build.version.sdk", "uname -r">>

\* what each prints on a device: "Pixel\n", "14\n", "34\n", "5.10\n"
DeviceTexts == <<<<80, 105, 120, 101, 108, 10>>, <<49, 52, 10>>, <<51, 52, 10>>, <<53, 46, 49, 48, 10>>>>

DeviceResults(i) ==
    {Threw, Exited(0, DeviceTexts[i], <<>>), Exited(1, <<>>, <<69>>)}
        \cup (IF i = 1 THEN {Exited(0, <<>>, <<>>)} ELSE {})

\* let model = "Device", android = "14", kernel = "Unknown"
DeviceDefaults ==
    [model |-> JStr(<<68, 101, 118, 105, 99, 101>>), android |-> JStr(<<49, 52>>), kernel |-> JStr(<<85, 110, 107, 110, 111, 119, 110>>)]

\* { model, android, kernel, selinux: "Enforcing" }
DeviceInfoOf(l) ==
    [model |-> l.model, android |-> l.android, kernel |-> l.kernel,
     selinux |-> JStr(<<69, 110, 102, 111, 114, 99, 105, 110, 103>>)]

Real_getDeviceStatus ==
    /\ pc = "idle"
    /\ API = "RealAPI"
    /\ IF ~ksuExec
       THEN Immediate("getDeviceStatus", NoArg, Returned(DeviceInfoOf(DeviceDefaults)))
       ELSE \E a1 \in DeviceResults(1), a2 \in DeviceResults(2),
               a3 \in DeviceResults(3), a4 \in DeviceResults(4) :
                Await("getDeviceStatus:p1", "getDeviceStatus", NoArg,
                      [answers |-> <<a1, a2, a3, a4>>, v |-> DeviceDefaults, p2 |-> Threw],
                      [name |-> DeviceCmds[1]])
    /\ UNCHANGED <<codecVars, envVars, remoteConfig, lastSaved, tabVars>>

\* a further command is issued after r settled
Continue(label, l, r, cmd) ==
    /\ pc' = label
    /\ loc' = l
    /\ cmds' = Append(cmds, cmd)
    /\ resps' = Append(resps, r)
    /\ UNCHANGED <<op, arg, out>>

Real_getDeviceStatus_p1 ==
    /\ pc = "getDeviceStatus:p1"
    /\ LET p1 == loc.answers[1]
       IN  IF p1.threw
           THEN Finish(p1, Returned(DeviceInfoOf(loc.v)))
           ELSE Continue("getDeviceStatus:p2",
                         IF p1.errno = 0
                         THEN [loc EXCEPT !.v.model = JStr(Trim(p1.stdout))]
                         ELSE loc,
                         p1, [name |-> DeviceCmds[2]])
    /\ UNCHANGED <<codecVars, envVars, remoteConfig, lastSaved, tabVars>>

Real_getDeviceStatus_p2 ==
    /\ pc = "getDeviceStatus:p2"
    /\ LET p2 == loc.answers[2]
       IN  IF p2.threw
           THEN Finish(p2, Returned(DeviceInfoOf(loc.v)))
           ELSE Continue("getDeviceStatus:p3", [loc EXCEPT !.p2 = p2], p2,
                         [name |-> DeviceCmds[3]])
    /\ UNCHANGED <<codecVars, envVars, remoteConfig, lastSaved, tabVars>>

Real_getDeviceStatus_p3 ==
    /\ pc = "getDeviceStatus:p3"
    /\ LET p3 == loc.answers[3]
           p2 == loc.p2
       IN  IF p3.threw
           THEN Finish(p3, Returned(DeviceInfoOf(loc.v)))
           ELSE Continue("getDeviceStatus:p4",
                         IF p2.errno = 0
                         THEN [loc EXCEPT !.v.android =
                                   JStr(Trim(p2.stdout) \o <<32, 40, 65, 80, 73, 32>> \o Trim(p3.stdout)
                                            \o <<41>>)]
                         ELSE loc,
                         p3, [name |-> DeviceCmds[4]])
    /\ UNCHANGED <<codecVars, envVars, remoteConfig, lastSaved, tabVars>>

Real_getDeviceStatus_p4 ==
    /\ pc = "getDeviceStatus:p4"
    /\ LET p4 == loc.answers[4]
       IN  IF p4.threw
           THEN Finish(p4, Returned(DeviceInfoOf(loc.v)))
           ELSE Finish(p4, Returned(DeviceInfoOf(
                        IF p4.errno = 0
                        THEN [loc.v EXCEPT !.kernel = JStr(Trim(p4.stdout))]
                        ELSE loc.v)))
    /\ UNCHANGED <<codecVars, envVars, remoteConfig, lastSaved, tabVars>>

\* texts `grep "^version=" .../module.prop` may print
VersionTexts == {<<118, 101, 114, 115, 105, 111, 110, 61, 118, 50, 46, 48, 32, 10>>, <<118, 101, 114, 115, 105, 111, 110, 67, 111, 100, 101, 61, 51, 10, 118, 101, 114, 115, 105, 111, 110, 61, 10, 118, 101, 114, 115, 105, 111, 110, 61, 118, 51, 10>>, <<118, 101, 114, 115, 105, 111, 110, 61, 10>>, <<>>}

VersionResults ==
    {Threw}
        \cup {Exited(0, t, <<>>) : t \in VersionTexts}
        \cup {Exited(e, t, <<69>>) : e \in FailCodes, t \in {<<>>, <<118, 101, 114, 115, 105, 111, 110, 61, 118, 50, 46, 48, 32, 10>>}}

\* units the regular expression dot does not match, and at which a multiline
\* ^ and $ anchor
IsLineTerminator(u) == u \in {10, 13, 8232, 8233}

\* the line that starts at index from and ends before index e
VersionLine(s, from, e) ==
    IF StartsWith(SubSeq(s, from, e - 1), <<118, 101, 114, 115, 105, 111, 110, 61>>) /\ e - from > 8
    THEN Match(SubSeq(s, from + 8, e - 1))
    ELSE NoMatch

\* stdout.match(/^version=(.+)$/m): the capture of the first line that
\* starts with "version=" and goes on
RECURSIVE MatchVersionFrom(_, _)
MatchVersionEnd(s, from, e) ==
    IF VersionLine(s, from, e).ok THEN VersionLine(s, from, e)
    ELSE MatchVersionFrom(s, e + 1)

MatchVersionLine(s, from, ends) ==
    IF ends = {} THEN MatchVersionEnd(s, from, Len(s) + 1)
    ELSE MatchVersionEnd(s, from, Min(ends))

MatchVersionFrom(s, from) ==
    IF from > Len(s) THEN NoMatch
    ELSE MatchVersionLine(s, from, {i \in from..Len(s) : IsLineTerminator(s[i])})

Real_getVersion ==
    /\ pc = "idle"
    /\ API = "RealAPI"
    /\ IF ~ksuExec
       THEN Immediate("getVersion", NoArg, Returned(JStr(APP_VERSION)))
       ELSE Await("getVersion", "getVersion", NoArg, NoLoc,
                  [name |-> "grep ^version= module.prop"])
    /\ UNCHANGED <<codecVars, envVars, remoteConfig, lastSaved, tabVars>>

\* if (match) return match[1].trim()
versionOfMatch(match) == IF match.ok THEN JStr(Trim(match.g)) ELSE JStr(APP_VERSION)

getVersionResult(r) ==
    IF ~r.threw /\ r.errno = 0 /\ r.stdout # <<>>
    THEN versionOfMatch(MatchVersionFrom(r.stdout, 1))
    ELSE JStr(APP_VERSION)

Real_getVersion_await ==
    /\ pc = "getVersion"
    /\ \E r \in VersionResults : Finish(r, Returned(getVersionResult(r)))
    /\ UNCHANGED <<codecVars, envVars, remoteConfig, lastSaved, tabVars>>

(***************************************************************************)
(* RealAPI: the accent color resolver.                                     *)
(***************************************************************************)
OVERLAY_COLOR_MAP ==
    <<
      \* "com.android.theme.color.cinnamon": "#9F6047"
      <<<<99, 111, 109, 46, 97, 110, 100, 114, 111, 105, 100, 46, 116, 104, 101, 109, 101, 46, 99, 111, 108, 111, 114, 46, 99, 105, 110, 110, 97, 109, 111, 110>>,
        <<35, 57, 70, 54, 48, 52, 55>>>>,
      \* "com.android.theme.color.black": "#3C3F41"
      <<<<99, 111, 109, 46, 97, 110, 100, 114, 111, 105, 100, 46, 116, 104, 101, 109, 101, 46, 99, 111, 108, 111, 114, 46, 98, 108, 97, 99, 107>>,
        <<35, 51, 67, 51, 70, 52, 49>>>>,
      \* "com.android.theme.color.green": "#3DDC84"
      <<<<99, 111, 109, 46, 97, 110, 100, 114, 111, 105, 100, 46, 116, 104, 101, 109, 101, 46, 99, 111, 108, 111, 114, 46, 103, 114, 101, 101, 110>>,
        <<35, 51, 68, 68, 67, 56, 52>>>>,
      \* "com.android.theme.color.ocean": "#009688"
      <<<<99, 111, 109, 46, 97, 110, 100, 114, 111, 105, 100, 46, 116, 104, 101, 109, 101, 46, 99, 111, 108, 111, 114, 46, 111, 99, 101, 97, 110>>,
        <<35, 48, 48, 57, 54, 56, 56>>>>,
      \* "com.android.theme.color.space": "#475975"
      <<<<99, 111, 109, 46, 97, 110, 100, 114, 111, 105, 100, 46, 116, 104, 101, 109, 101, 46, 99, 111, 108, 111, 114, 46, 115, 112, 97, 99, 101>>,
        <<35, 52, 55, 53, 57, 55, 53>>>>,
      \* "com.android.theme.color.orchid": "#DA70D6"
      <<<<99, 111, 109, 46, 97, 110, 100, 114, 111, 105, 100, 46, 116, 104, 101, 109, 101, 46, 99, 111, 108, 111, 114, 46, 111, 114, 99, 104, 105, 100>>,
        <<35, 68, 65, 55, 48, 68, 54>>>>,
      \* "com.android.theme.color.purple": "#9C27B0"
      <<<<99, 111, 109, 46, 97, 110, 100, 114, 111, 105, 100, 46, 116, 104, 101, 109, 101, 46, 99, 111, 108, 111, 114, 46, 112, 117, 114, 112, 108, 101>>,
        <<35, 57, 67, 50, 55, 66, 48>>>>,
      \* "org.lineageos.overlay.accent.blue": "#4285F4"
      <<<<111, 114, 103, 46, 108, 105, 110, 101, 97, 103, 101, 111, 115, 46, 111, 118, 101, 114, 108, 97, 121, 46, 97, 99, 99, 101, 110, 116, 46, 98, 108, 117, 101>>,
        <<35, 52, 50, 56, 53, 70, 52>>>>,
      \* "org.lineageos.overlay.accent.cyan": "#00BCD4"
      <<<<111, 114, 103, 46, 108, 105, 110, 101, 97, 103, 101, 111, 115, 46, 111, 118, 101, 114, 108, 97, 121, 46, 97, 99, 99, 101, 110, 116, 46, 99, 121, 97, 110>>,
        <<35, 48, 48, 66, 67, 68, 52>>>>,
      \* "org.lineageos.overlay.accent.green": "#4CAF50"
      <<<<111, 114, 103, 46, 108, 105, 110, 101, 97, 103, 101, 111, 115, 46, 111, 118, 101, 114, 108, 97, 121, 46, 97, 99, 99, 101, 110, 116, 46, 103, 114, 101, 101, 110>>,
        <<35, 52, 67, 65, 70, 53, 48>>>>,
      \* "org.lineageos.overlay.accent.orange": "#FF9800"
      <<<<111, 114, 103, 46, 108, 105, 110, 101, 97, 103, 101, 111, 115, 46, 111, 118, 101, 114, 108, 97, 121, 46, 97, 99, 99, 101, 110, 116, 46, 111, 114, 97, 110, 103, 101>>,
        <<35, 70, 70, 57, 56, 48, 48>>>>,
      \* "org.lineageos.overlay.accent.pink": "#E91E63"
      <<<<111, 114, 103, 46, 108, 105, 110, 101, 97, 103, 101, 111, 115, 46, 111, 118, 101, 114, 108, 97, 121, 46, 97, 99, 99, 101, 110, 116, 46, 112, 105, 110, 107>>,
        <<35, 69, 57, 49, 69, 54, 51>>>>,
      \* "org.lineageos.overlay.accent.purple": "#9C27B0"
      <<<<111, 114, 103, 46, 108, 105, 110, 101, 97, 103, 101, 111, 115, 46, 111, 118, 101, 114, 108, 97, 121, 46, 97, 99, 99, 101, 110, 116, 46, 112, 117, 114, 112, 108, 101>>,
        <<35, 57, 67, 50, 55, 66, 48>>>>,
      \* "org.lineageos.overlay.accent.red": "#F44336"
      <<<<111, 114, 103, 46, 108, 105, 110, 101, 97, 103, 101, 111, 115, 46, 111, 118, 101, 114, 108, 97, 121, 46, 97, 99, 99, 101, 110, 116, 46, 114, 101, 100>>,
        <<35, 70, 52, 52, 51, 51, 54>>>>,
      \* "org.lineageos.overlay.accent.yellow": "#FFEB3B"
      <<<<111, 114, 103, 46, 108, 105, 110, 101, 97, 103, 101, 111, 115, 46, 111, 118, 101, 114, 108, 97, 121, 46, 97, 99, 99, 101, 110, 116, 46, 121, 101, 108, 108, 111, 119>>,
        <<35, 70, 70, 69, 66, 51, 66>>>>
    >>

\* index after the white space that starts at index i
RECURSIVE SkipSpace(_, _)
SkipSpace(s, i) == IF i <= Len(s) /\ IsSpace(s[i]) THEN SkipSpace(s, i + 1) ELSE i

\* number of hexadecimal digits from index i on, counted up to max
RECURSIVE HexRun(_, _, _)
HexRun(s, i, max) ==
    IF max = 0 \/ i > Len(s) \/ ~IsHexDigit(s[i]) THEN 0
    ELSE 1 + HexRun(s, i + 1, max - 1)

IsQuote(u) == u \in {34, 39}

\* the settings pattern from its capture on, e being the index of the first
\* digit: ([0-9a-fA-F]{6,8}), greedy
PaletteDigits(s, e, n) == IF n >= 6 THEN Match(SubSeq(s, e, e + n - 1)) ELSE NoMatch

\* ... from the optional '#' on: #?([0-9a-fA-F]{6,8})
PaletteHash(s, d) ==
    IF d <= Len(s) /\ s[d] = 35
    THEN PaletteDigits(s, d + 1, HexRun(s, d + 1, 8))
    ELSE PaletteDigits(s, d, HexRun(s, d, 8))

\* ... from the optional quote before the value on: ["']?#?(...)
PaletteValue(s, c) ==
    IF c <= Len(s) /\ IsQuote(s[c]) THEN PaletteHash(s, c + 1) ELSE PaletteHash(s, c)

\* ... from the colon on: :\s*["']?#?(...)
PaletteColon(s, b) ==
    IF b > Len(s) \/ s[b] # 58 THEN NoMatch ELSE PaletteValue(s, SkipSpace(s, b + 1))

\* the rest of the settings pattern after the key name, i being the index
\* after the key: ["']?\s*:\s*["']?#?([0-9a-fA-F]{6,8})
PaletteTail(s, i) ==
    IF i <= Len(s) /\ IsQuote(s[i])
    THEN PaletteColon(s, SkipSpace(s, i + 1))
    ELSE PaletteColon(s, SkipSpace(s, i))

\* the settings pattern tried with the key at 0-based offset i (the two key
\* names start with different letters, so at most one alternative applies)
PaletteAt(s, i) ==
    IF HasAtNoCase(s, <<97, 110, 100, 114, 111, 105, 100, 46, 116, 104, 101, 109, 101, 46, 99, 117, 115, 116, 111, 109, 105, 122, 97, 116, 105, 111, 110, 46, 115, 121, 115, 116, 101, 109, 95, 112, 97, 108, 101, 116, 116, 101>>, i)
    THEN PaletteTail(s, i + 43)
    ELSE IF HasAtNoCase(s, <<115, 111, 117, 114, 99, 101, 95, 99, 111, 108, 111, 114>>, i)
    THEN PaletteTail(s, i + 13)
    ELSE NoMatch

PaletteFirst(s, hits) == IF hits = {} THEN NoMatch ELSE PaletteAt(s, Min(hits))

\* /["']?(?:android\.theme\.customization\.system_palette|source_color)["']?
\*  \s*:\s*["']?#?([0-9a-fA-F]{6,8})["']?/i.exec(s): the leftmost match
MatchPalette(s) == PaletteFirst(s, {i \in 0..Len(s) : PaletteAt(s, i).ok})

\* the wallpaper pattern tried at 0-based offset i
MainColorAt(s, i) ==
    IF HasAtNoCase(s, <<109, 77, 97, 105, 110, 67, 111, 108, 111, 114, 61, 48, 120>>, i) /\ HexRun(s, i + 14, 8) = 8
    THEN Match(SubSeq(s, i + 14, i + 21))
    ELSE NoMatch

MainColorFirst(s, hits) == IF hits = {} THEN NoMatch ELSE MainColorAt(s, Min(hits))

\* /mMainColor=0x([0-9a-fA-F]{8})/i.exec(s)
MatchMainColor(s) == MainColorFirst(s, {i \in 0..Len(s) : MainColorAt(s, i).ok})

\* match[1].length === 8 ? match[1].substring(2) : match[1], then `#${hex}`
HashOfMatch(g) == <<35>> \o (IF Len(g) = 8 THEN SubstringFrom(g, 2) ELSE g)

\* if (match?.[1]) return `#${hex}`
ColorOfMatch(m) == IF m.ok /\ m.g # <<>> THEN Match(HashOfMatch(m.g)) ELSE NoMatch

OverlayFirst(hits) ==
    IF hits = {} THEN NoMatch ELSE Match(OVERLAY_COLOR_MAP[Min(hits)][2])

\* the first entry of OVERLAY_COLOR_MAP whose package the line includes
OverlayOfLine(line) ==
    OverlayFirst({k \in 1..Len(OVERLAY_COLOR_MAP) : Includes(line, OVERLAY_COLOR_MAP[k][1])})

\* the loop over overlayOut.split("\n"): the first line that includes "[x]"
\* and a known package decides
RECURSIVE OverlayOfLines(_)
OverlayOfLines(lines) ==
    IF lines = <<>> THEN NoMatch
    ELSE IF Includes(Head(lines), <<91, 120, 93>>) /\ OverlayOfLine(Head(lines)).ok
    THEN OverlayOfLine(Head(lines))
    ELSE OverlayOfLines(Tail(lines))

\* /^#?[0-9a-fA-F]{6,8}$/.test(trimmed), from being the index of the first
\* digit
IsThemeColorFrom(trimmed, from) ==
    /\ Len(trimmed) - from + 1 >= 6
    /\ Len(trimmed) - from + 1 <= 8
    /\ \A i \in from..Len(trimmed) : IsHexDigit(trimmed[i])

IsThemeColor(trimmed) ==
    IF trimmed # <<>> /\ trimmed[1] = 35
    THEN IsThemeColorFrom(trimmed, 2)
    ELSE IsThemeColorFrom(trimmed, 1)

\* return trimmed.startsWith("#") ? trimmed : `#${trimmed}`
ThemeColorOf(trimmed) ==
    IF IsThemeColor(trimmed)
    THEN Match(IF StartsWith(trimmed, <<35>>) THEN trimmed ELSE <<35>> \o trimmed)
    ELSE NoMatch

\* what each step of fetchSystemColor finds in the stdout of its command
StepMatch(step, stdout) ==
    IF stdout = <<>> THEN NoMatch
    ELSE IF step = 1 THEN ColorOfMatch(MatchPalette(stdout))
    ELSE IF step = 2 THEN ColorOfMatch(MatchMainColor(stdout))
    ELSE IF step = 3 THEN OverlayOfLines(Split(stdout, 10))
    ELSE ThemeColorOf(Trim(stdout))

\* the commands of the four steps, in the order they are issued
ColorCmds ==
    <<"settings get secure theme_customization_overlay_packages",
      "dumpsys wallpaper | grep -E 'mMainColor|mPrimaryColors|mConnection'",
      "cmd overlay list --user current",
      "getprop persist.sys.theme.color">>

\* texts each command may print
ColorTexts ==
    <<{<<>>,
       <<123, 34, 97, 110, 100, 114, 111, 105, 100, 46, 116, 104, 101, 109, 101, 46, 99, 117, 115, 116, 111, 109, 105, 122, 97, 116, 105, 111, 110, 46, 115, 121, 115, 116, 101, 109, 95, 112, 97, 108, 101, 116, 116, 101, 34, 58, 34, 70, 70, 49, 49, 50, 50, 51, 51, 34, 125>>,
       <<83, 79, 85, 82, 67, 69, 95, 67, 79, 76, 79, 82, 32, 58, 32, 49, 50, 51, 52, 53, 54, 55, 32>>},
      {<<>>, <<109, 77, 97, 105, 110, 67, 111, 108, 111, 114, 61, 48, 120, 102, 102, 52, 52, 53, 53, 54, 54, 32, 109, 67, 111, 110, 110, 101, 99, 116, 105, 111, 110>>, <<109, 77, 97, 105, 110, 67, 111, 108, 111, 114, 61, 48, 120, 52, 52, 53, 53>>},
      {<<>>,
       <<91, 32, 93, 32, 99, 111, 109, 46, 97, 110, 100, 114, 111, 105, 100, 46, 116, 104, 101, 109, 101, 46, 99, 111, 108, 111, 114, 46, 103, 114, 101, 101, 110, 10, 91, 120, 93, 32, 111, 114, 103, 46, 108, 105, 110, 101, 97, 103, 101, 111, 115, 46, 111, 118, 101, 114, 108, 97, 121, 46, 97, 99, 99, 101, 110, 116, 46, 112, 117, 114, 112, 108, 101, 10>>,
       <<91, 120, 93, 32, 111, 116, 104, 101, 114, 46, 112, 107, 103, 10>>},
      {<<>>, <<32, 35, 55, 55, 56, 56, 57, 57, 10>>, <<102, 102, 55, 55, 56, 56, 57, 57, 10>>, <<122, 122, 10>>}>>

\* what each command may answer; the settings command may also print a
\* color and exit non-zero
ColorResults(i) ==
    {Threw}
        \cup {Exited(0, t, <<>>) : t \in ColorTexts[i]}
        \cup (IF i = 1 THEN {Exited(1, <<123, 34, 115, 111, 117, 114, 99, 101, 95, 99, 111, 108, 111, 114, 34, 58, 34, 35, 49, 97, 50, 66, 51, 99, 34, 125>>, <<69>>)} ELSE {})

Real_fetchSystemColor ==
    /\ pc = "idle"
    /\ API = "RealAPI"
    /\ IF ~ksuExec
       THEN Immediate("fetchSystemColor", NoArg, Returned(JNull))
       ELSE \E a1 \in ColorResults(1), a2 \in ColorResults(2),
               a3 \in ColorResults(3), a4 \in ColorResults(4) :
                Await("fetchSystemColor:1", "fetchSystemColor", NoArg,
                      [answers |-> <<a1, a2, a3, a4>>], [name |-> ColorCmds[1]])
    /\ UNCHANGED <<codecVars, envVars, remoteConfig, lastSaved, tabVars>>

\* one step of the chain once its command settled with r, m being what the
\* step finds in its stdout: the rejection is caught and gives null, a match
\* is returned, otherwise the next command is issued
ColorStepWith_skipsWallpaper(step, r, m) ==
    IF r.threw THEN Finish(r, Returned(JNull))
    ELSE IF m.ok THEN Finish(r, Returned(JStr(m.g)))
    ELSE IF step = 4 THEN Finish(r, Returned(JNull))
    ELSE Continue(IF step = 1 THEN "fetchSystemColor:3"
                  ELSE IF step = 2 THEN "fetchSystemColor:3"
                  ELSE "fetchSystemColor:4",
                  loc, r, [name |-> ColorCmds[IF step = 1 THEN 3 ELSE step + 1]])

ColorStepWith(step, r, m) ==
    IF r.threw THEN Finish(r, Returned(JNull))
    ELSE IF m.ok THEN Finish(r, Returned(JStr(m.g)))
    ELSE IF step = 4 THEN Finish(r, Returned(JNull))
    ELSE Continue(IF step = 1 THEN "fetchSystemColor:2"
                  ELSE IF step = 2 THEN "fetchSystemColor:3"
                  ELSE "fetchSystemColor:4",
                  loc, r, [name |-> ColorCmds[step + 1]])

ColorStep(step) ==
    ColorStepWith(step, loc.answers[step], StepMatch(step, loc.answers[step].stdout))

Real_fetchSystemColor_settings ==
    /\ pc = "fetchSystemColor:1"
    /\ ColorStep(1)
    /\ UNCHANGED <<codecVars, envVars, remoteConfig, lastSaved, tabVars>>

Real_fetchSystemColor_wallpaper ==
    /\ pc = "fetchSystemColor:2"
    /\ ColorStep(2)
    /\ UNCHANGED <<codecVars, envVars, remoteConfig, lastSaved, tabVars>>

Real_fetchSystemColor_overlay ==
    /\ pc = "fetchSystemColor:3"
    /\ ColorStep(3)
    /\ UNCHANGED <<codecVars, envVars, remoteConfig, lastSaved, tabVars>>

Real_fetchSystemColor_prop ==
    /\ pc = "fetchSystemColor:4"
    /\ ColorStep(4)
    /\ UNCHANGED <<codecVars, envVars, remoteConfig, lastSaved, tabVars>>

(***************************************************************************)
(* MockAPI (api.mock.ts) and the operations of the AppAPI contract.        *)
(***************************************************************************)
\* the members of interface AppAPI
AppAPIOps ==
    {"loadConfig", "saveConfig", "resetConfig", "scanModules", "saveModules",
     "saveModuleRules", "getStorageUsage", "getSystemInfo", "getDeviceStatus",
     "getVersion", "openLink", "fetchSystemColor", "reboot", "readLogs"}

\* the members of the MockAPI object literal
MockAPIOps ==
    {"loadConfig", "saveConfig", "resetConfig", "scanModules", "saveModuleRules",
     "getDeviceStatus", "getVersion", "getStorageUsage", "getSystemInfo",
     "rmmodHymofs"}

\* what each MockAPI method resolves to after its delay
MockResult(name) ==
    CASE name = "loadConfig" -> Spread(DEFAULT_CONFIG, JObj(<<>>))
      [] name = "scanModules" ->
             JArr(<<JObj(<< <<<<105, 100>>, JStr(<<109, 97, 103, 105, 115, 107, 95, 109, 111, 100, 117, 108, 101, 95, 49>>)>> >>),
                    JObj(<< <<<<105, 100>>, JStr(<<111, 118, 101, 114, 108, 97, 121, 95, 109, 111, 100, 117, 108, 101, 95, 50>>)>> >>),
                    JObj(<< <<<<105, 100>>, JStr(<<104, 121, 109, 111, 102, 115, 95, 109, 111, 100, 117, 108, 101, 95, 51>>)>> >>)>>)
      [] name = "getDeviceStatus" ->
             [model |-> JStr(<<80, 105, 120, 101, 108, 32, 56, 32, 80, 114, 111, 32, 40, 77, 111, 99, 107, 41>>), android |-> JStr(<<49, 52, 32, 40, 65, 80, 73, 32, 51, 52, 41>>),
              kernel |-> JStr(<<53, 46, 49, 53, 46, 49, 49, 48, 45, 97, 110, 100, 114, 111, 105, 100, 49, 52, 45, 49, 49>>), selinux |-> JStr(<<69, 110, 102, 111, 114, 99, 105, 110, 103>>)]
      [] name = "getVersion" -> JStr(APP_VERSION)
      [] name = "getStorageUsage" -> [type |-> JStr(<<101, 114, 111, 102, 115>>)]
      [] name = "getSystemInfo" ->
             [kernel |-> JStr(<<76, 105, 110, 117, 120, 32, 108, 111, 99, 97, 108, 104, 111, 115, 116, 32, 53, 46, 49, 53, 46, 48, 32, 35, 49, 32, 83, 77, 80, 32, 80, 82, 69, 69, 77, 80, 84>>),
              selinux |-> JStr(<<69, 110, 102, 111, 114, 99, 105, 110, 103>>),
              mountBase |-> JStr(<<47, 100, 97, 116, 97, 47, 97, 100, 98, 47, 109, 101, 116, 97, 45, 104, 121, 98, 114, 105, 100, 47, 109, 110, 116>>),
              activeMounts |-> JArr(<<JStr(<<115, 121, 115, 116, 101, 109>>), JStr(<<112, 114, 111, 100, 117, 99, 116>>)>>),
              zygisksuEnforce |-> JStr(<<49>>),
              tmpfs_xattr_supported |-> JBool(FALSE)]
      [] OTHER -> JUndefined

\* arguments a caller may pass to an operation
ArgsOf(name) ==
    CASE name = "saveConfig" -> ConfigArgs
      [] name = "saveModuleRules" ->
             {[moduleId |-> m, rules |-> r] : m \in ModuleIds, r \in RuleSets}
      [] name = "openLink" -> {JStr(url) : url \in Urls}
      [] OTHER -> {NoArg}

\* API.<name>(...) while API is MockAPI and MockAPI has the method: the call
\* suspends in delay(ms)
Mock_call ==
    /\ pc = "idle"
    /\ API = "MockAPI"
    /\ \E name \in AppAPIOps \cap MockAPIOps :
           \E a \in ArgsOf(name) :
               /\ pc' = "delay"
               /\ op' = name
               /\ arg' = a
               /\ loc' = NoLoc
               /\ cmds' = <<>>
               /\ resps' = <<>>
               /\ out' = Pending
    /\ UNCHANGED <<codecVars, envVars, remoteConfig, lastSaved, tabVars>>

\* setTimeout fires and the method returns its fixture
Mock_delay ==
    /\ pc = "delay"
    /\ pc' = "done"
    /\ out' = Returned(MockResult(op))
    /\ UNCHANGED <<op, arg, loc, cmds, resps>>
    /\ UNCHANGED <<codecVars, envVars, remoteConfig, lastSaved, tabVars>>

\* "TypeError: API.<name> is not a function"
MsgNotAFunction == <<105, 115, 32, 110, 111, 116, 32, 97, 32, 102, 117, 110, 99, 116, 105, 111, 110>>

\* API.<name>(...) while API is MockAPI cast to AppAPI and MockAPI has no
\* such method: the member is undefined and calling it throws
Mock_missing ==
    /\ pc = "idle"
    /\ API = "MockAPI"
    /\ \E name \in AppAPIOps \ MockAPIOps :
           \E a \in ArgsOf(name) : Immediate(name, a, Thrown(MsgNotAFunction))
    /\ UNCHANGED <<codecVars, envVars, remoteConfig, lastSaved, tabVars>>

Next ==
    \/ Real_loadConfig
    \/ Real_loadConfig_await
    \/ Real_saveConfig
    \/ Real_saveConfig_await
    \/ Real_resetConfig
    \/ Real_resetConfig_await
    \/ Real_scanModules
    \/ Real_scanModules_await
    \/ Real_saveModules
    \/ Real_readLogs
    \/ Real_readLogs_await
    \/ Real_saveModuleRules
    \/ Real_saveModuleRules_await
    \/ Real_openLink
    \/ Real_openLink_await
    \/ Real_reboot
    \/ Real_reboot_await
    \/ Real_getStorageUsage
    \/ Real_getStorageUsage_await
    \/ Real_getSystemInfo
    \/ Real_getSystemInfo_sys
    \/ Real_getSystemInfo_state
    \/ Real_getDeviceStatus
    \/ Real_getDeviceStatus_p1
    \/ Real_getDeviceStatus_p2
    \/ Real_getDeviceStatus_p3
    \/ Real_getDeviceStatus_p4
    \/ Real_getVersion
    \/ Real_getVersion_await
    \/ Real_fetchSystemColor
    \/ Real_fetchSystemColor_settings
    \/ Real_fetchSystemColor_wallpaper
    \/ Real_fetchSystemColor_overlay
    \/ Real_fetchSystemColor_prop
    \/ Mock_call
    \/ Mock_delay
    \/ Mock_missing
    \/ Settle

Spec == Init /\ [][Next]_vars

(***************************************************************************)
(* Properties of the facade and of the write operations.                   *)
(***************************************************************************)
WriteOps == {"saveConfig", "resetConfig", "saveModuleRules"}

ReadOps ==
    {"loadConfig", "scanModules", "readLogs", "getStorageUsage", "getSystemInfo",
     "getDeviceStatus", "getVersion", "fetchSystemColor"}

\* C1: a write operation called through the exported API object while the
\* execution capability is absent ends in an error raised to the caller, never
\* in a successful return.
C1_AbsentCapabilityWriteRaises ==
    (pc = "done" /\ op \in WriteOps /\ ~ksuExec) => out.kind = "throw"

\* C2: on the real stack a write operation issues exactly one command and
\* never a second one; when that command exits non-zero the operation raises
\* an error whose message contains the command's stderr text; and it
\* completes without error only if the exit code was 0.
C2_WriteFailurePolicy ==
    (pc = "done" /\ API = "RealAPI" /\ op \in WriteOps) =>
        /\ Len(cmds) = 1
        /\ Len(resps) = 1
        /\ (~resps[1].threw /\ resps[1].errno # 0) =>
               /\ out.kind = "throw"
               /\ out.val.t = "str"
               /\ Includes(out.val.s, resps[1].stderr)
        /\ out.kind = "return" => (~resps[1].threw /\ resps[1].errno = 0)

\* a rule save that exited with code 1 and stderr "disk full" raised an error
\* whose message contains "disk full"
C2_Witness ==
    /\ pc = "done"
    /\ API = "RealAPI"
    /\ op = "saveModuleRules"
    /\ resps = <<Exited(1, <<>>, <<100, 105, 115, 107, 32, 102, 117, 108, 108>>)>>
    /\ out.kind = "throw"
    /\ Includes(out.val.s, <<100, 105, 115, 107, 32, 102, 117, 108, 108>>)

\* C3: every operation of the AppAPI contract is callable on the exported API
\* object whichever stack is bound, and under the mock binding
\* fetchSystemColor returns null.
C3_MockSatisfiesContract ==
    (pc = "done" /\ op \in AppAPIOps) =>
        /\ out # Thrown(MsgNotAFunction)
        /\ (API = "MockAPI" /\ op = "fetchSystemColor") => out = Returned(JNull)

(***************************************************************************)
(* Properties of the read operations.                                      *)
(***************************************************************************)
\* the value each read operation starts from before it asks the capability
DefaultOf(name) ==
    CASE name = "loadConfig" -> DEFAULT_CONFIG
      [] name = "scanModules" -> JArr(<<>>)
      [] name = "readLogs" -> JStr(<<>>)
      [] name = "getStorageUsage" -> [type |-> JNull]
      [] name = "getSystemInfo" -> SentinelInfo
      [] name = "getDeviceStatus" -> DeviceInfoOf(DeviceDefaults)
      [] name = "getVersion" -> JStr(APP_VERSION)
      [] name = "fetchSystemColor" -> JNull

\* the i-th command of the operation prints JSON
ReadsJson(name, i) ==
    \/ name \in {"loadConfig", "scanModules", "getStorageUsage"}
    \/ name = "getSystemInfo" /\ i = 2

\* a sub-query delivered a usable answer
SubQueryOk(r) == ~r.threw /\ r.errno = 0 /\ r.stdout # <<>>

\* the answer is one of the failure kinds: the call rejects, the command
\* exits non-zero, the output is empty or cannot be parsed
AnswerFails(name, i, r) ==
    \/ ~SubQueryOk(r)
    \/ ReadsJson(name, i) /\ ~JSONparse(r.stdout).ok

\* C4: on the real stack no read operation lets an exception reach its
\* caller, and when every answer it received was a failure (rejected call,
\* non-zero exit, empty or unparseable output) it completes with its default
\* value (null for fetchSystemColor).
C4_ReadsAbsorbFailures ==
    (pc = "done" /\ API = "RealAPI" /\ op \in ReadOps) =>
        /\ out.kind = "return"
        /\ (\A i \in 1..Len(resps) : AnswerFails(op, i, resps[i])) =>
               out.val = DefaultOf(op)

\* a sub-query that did not deliver counts as a plain failure
AsPlainFailure(r) == IF SubQueryOk(r) THEN r ELSE Exited(1, <<>>, <<>>)

\* getSystemInfo with each sub-query deciding its own fields only
IsolatedSystemInfo(a) ==
    infoAfterState(infoAfterSys(AsPlainFailure(a[1])), AsPlainFailure(a[2]))

\* getDeviceStatus with each sub-query deciding its own fields only
IsolatedDeviceStatus(a) ==
    DeviceInfoOf(
        [model |-> IF SubQueryOk(a[1]) THEN JStr(Trim(a[1].stdout))
                   ELSE DeviceDefaults.model,
         android |-> IF SubQueryOk(a[2]) /\ SubQueryOk(a[3])
                     THEN JStr(Trim(a[2].stdout) \o <<32, 40, 65, 80, 73, 32>> \o Trim(a[3].stdout) \o <<41>>)
                     ELSE DeviceDefaults.android,
         kernel |-> IF SubQueryOk(a[4]) THEN JStr(Trim(a[4].stdout))
                    ELSE DeviceDefaults.kernel])

\* C5: in getSystemInfo and getDeviceStatus a sub-query that fails (non-zero
\* exit, rejected call or empty output) leaves only the fields it sources at
\* their fallback; the fields sourced by the other sub-queries carry what
\* those sub-queries deliver.
C5_SubQueriesIsolated ==
    /\ (pc = "done" /\ API = "RealAPI" /\ op = "getSystemInfo") =>
           out = Returned(IsolatedSystemInfo(loc.answers))
    /\ (pc = "done" /\ API = "RealAPI" /\ op = "getDeviceStatus") =>
           out = Returned(IsolatedDeviceStatus(loc.answers))

(***************************************************************************)
(* Properties of fetchSystemColor.                                         *)
(***************************************************************************)
ColorDone == pc = "done" /\ API = "RealAPI" /\ op = "fetchSystemColor"

\* the answer r of step k holds a color
StepYields(k, r) == ~r.threw /\ StepMatch(k, r.stdout).ok

\* the answer r of step k arrived and holds no color
StepYieldsNothing(k, r) == ~r.threw /\ ~StepMatch(k, r.stdout).ok

\* the commands are issued in the fixed order of the chain
ColorOrder == \A k \in 1..Len(cmds) : cmds[k].name = ColorCmds[k]

\* the result is what the first step that found a color reports, and that
\* step's command is the last one issued
ColorFirstSuccess ==
    /\ \A k \in 1..Len(resps) :
           StepYields(k, resps[k]) =>
               /\ out = Returned(JStr(StepMatch(k, resps[k].stdout).g))
               /\ Len(cmds) = k
               /\ \A j \in 1..(k - 1) : ~StepYields(j, resps[j])
    /\ out # Returned(JNull) => \E k \in 1..Len(resps) : StepYields(k, resps[k])

\* a rejected command call ends the chain with null
ColorRejectionEnds ==
    \A k \in 1..Len(resps) :
        resps[k].threw => (out = Returned(JNull) /\ Len(cmds) = k)

\* no source holds a color: the result is null
ColorAllFail ==
    (\A k \in 1..4 : ~StepYields(k, loc.answers[k])) => out = Returned(JNull)

\* the colors of the known packages found on enabled lines of an overlay list
EnabledOverlayColors(stdout) ==
    {OVERLAY_COLOR_MAP[k][2] : k \in
        {k \in 1..Len(OVERLAY_COLOR_MAP) :
            \E i \in 1..Len(Split(stdout, 10)) :
                /\ Includes(Split(stdout, 10)[i], <<91, 120, 93>>)
                /\ Includes(Split(stdout, 10)[i], OVERLAY_COLOR_MAP[k][1])}}

\* C6 as stated: the sources are evaluated in the fixed order and the chain
\* stops at the first success; when step 1 yields nothing and the overlay
\* list has a known package on an enabled line, the result is that package's
\* color and the commands of steps 2 and 4 are never issued; with no source
\* holding a color the result is null.
C6_OverlayDecidesWithoutWallpaper ==
    ColorDone =>
        /\ ColorOrder
        /\ ColorFirstSuccess
        /\ (/\ StepYieldsNothing(1, loc.answers[1])
            /\ EnabledOverlayColors(loc.answers[3].stdout) # {}
            /\ ~loc.answers[3].threw) =>
               /\ out.val.t = "str"
               /\ out.val.s \in EnabledOverlayColors(loc.answers[3].stdout)
               /\ \A k \in 1..Len(cmds) : cmds[k].name \notin {ColorCmds[2], ColorCmds[4]}
        /\ ColorAllFail

\* C6 (amended): the sources are evaluated in the fixed order and the chain
\* stops at the first success, a rejected call ending it with null; when
\* steps 1 and 2 both complete without a color and the overlay list has a
\* known package on an enabled line, the result is that package's color, the
\* commands issued are exactly those of steps 1, 2 and 3, and the command of
\* step 4 is never issued; with no source holding a color the result is null.
C6_OverlayDecidesAfterWallpaper ==
    ColorDone =>
        /\ ColorOrder
        /\ ColorFirstSuccess
        /\ (/\ StepYieldsNothing(1, loc.answers[1])
            /\ StepYieldsNothing(2, loc.answers[2])
            /\ EnabledOverlayColors(loc.answers[3].stdout) # {}
            /\ ~loc.answers[3].threw) =>
               /\ out.val.t = "str"
               /\ out.val.s \in EnabledOverlayColors(loc.answers[3].stdout)
               /\ Len(cmds) = 3
        /\ ColorRejectionEnds
        /\ ColorAllFail

\* the settings key and the wallpaper dump held no color, the overlay list
\* has the LineageOS purple accent enabled, and its color was returned after
\* three commands
C6_Witness ==
    /\ ColorDone
    /\ StepYieldsNothing(1, loc.answers[1])
    /\ StepYieldsNothing(2, loc.answers[2])
    /\ resps[2].stdout # <<>>
    /\ out = Returned(JStr(<<35, 57, 67, 50, 55, 66, 48>>))
    /\ Len(cmds) = 3

IsColorText(s) ==
    /\ Len(s) = 7
    /\ s[1] = 35
    /\ \A i \in 2..7 : IsHexDigit(s[i])

\* C7: every non-null result of fetchSystemColor is '#' followed by exactly
\* six hex digits, whichever step produced it.
C7_ResultIsRgb ==
    (ColorDone /\ out # Returned(JNull)) =>
        /\ out.kind = "return"
        /\ out.val.t = "str"
        /\ IsColorText(out.val.s)

(***************************************************************************)
(* Properties of the config service.                                       *)
(***************************************************************************)
\* C8: a loadConfig issued after a saveConfig(c) that succeeded, with no
\* other config write in between and the remote returning what it stored,
\* returns a record equal by value to c merged over the defaults, and that
\* record equals c.
C8_LoadReturnsWhatWasSaved ==
    (/\ pc = "done"
     /\ API = "RealAPI"
     /\ op = "loadConfig"
     /\ lastSaved.some
     /\ resps = <<Exited(0, remoteConfig, <<>>)>>) =>
        /\ out.kind = "return"
        /\ DeepEqual(out.val, Spread(DEFAULT_CONFIG, lastSaved.c))
        /\ DeepEqual(out.val, lastSaved.c)

\* the show-config answer gives loadConfig nothing to merge
LoadFails(r) ==
    \/ r.threw
    \/ r.errno # 0
    \/ r.stdout = <<>>
    \/ ~JSONparse(r.stdout).ok

\* result holds R[k] for every key of R and D[k] for every other key
RemoteWins(result, R) ==
    /\ result.t = "obj"
    /\ Keys(result) = Keys(DEFAULT_CONFIG) \cup Keys(R)
    /\ \A k \in Keys(R) : Get(result, k) = Get(R, k)
    /\ \A k \in Keys(result) \ Keys(R) : Get(result, k) = Get(DEFAULT_CONFIG, k)

\* C9: loadConfig always returns a record holding every key of the defaults
\* D; with the capability absent, a non-zero exit, or empty or unparseable
\* output the result is deep-equal to D; when the output parses to a record R
\* the result holds R[k] for every key of R and D[k] for every other key.
C9_LoadMergesOverDefaults ==
    (pc = "done" /\ op = "loadConfig") =>
        /\ out.kind = "return"
        /\ out.val.t = "obj"
        /\ Keys(DEFAULT_CONFIG) \subseteq Keys(out.val)
        /\ ~ksuExec => DeepEqual(out.val, DEFAULT_CONFIG)
        /\ (API = "RealAPI" /\ LoadFails(resps[1])) =>
               DeepEqual(out.val, DEFAULT_CONFIG)
        /\ (API = "RealAPI" /\ ~LoadFails(resps[1])
                /\ JSONparse(resps[1].stdout).v.t = "obj") =>
               RemoteWins(out.val, JSONparse(resps[1].stdout).v)

\* show-config printed a record that sets logfile and hymofs_debug and lacks
\* moduledir; the result carries the remote logfile, the remote hymofs_debug
\* and the default moduledir
C9_Witness ==
    /\ pc = "done"
    /\ API = "RealAPI"
    /\ op = "loadConfig"
    /\ ~LoadFails(resps[1])
    /\ JSONparse(resps[1].stdout).v.t = "obj"
    /\ HasKey(JSONparse(resps[1].stdout).v, K_hymofs_debug)
    /\ ~HasKey(JSONparse(resps[1].stdout).v, K_moduledir)
    /\ Get(JSONparse(resps[1].stdout).v, K_logfile) # Get(DEFAULT_CONFIG, K_logfile)
    /\ Get(out.val, K_logfile) = Get(JSONparse(resps[1].stdout).v, K_logfile)
    /\ Get(out.val, K_moduledir) = Get(DEFAULT_CONFIG, K_moduledir)
    /\ HasKey(out.val, K_hymofs_debug)

(***************************************************************************)
(* Properties of the binding.                                              *)
(***************************************************************************)
\* a call in progress or just finished runs on the bound stack: only MockAPI
\* waits in delay or lacks a member, only RealAPI issues commands
DispatchedToBound ==
    /\ (pc = "delay" \/ (pc = "done" /\ out = Thrown(MsgNotAFunction))) =>
           API = "MockAPI"
    /\ cmds # <<>> => API = "RealAPI"
    /\ (pc \notin {"idle", "delay", "done"}) => API = "RealAPI"

\* C11: the binding is decided once at module initialization and never
\* changes: the mock stack is bound exactly when the build is a development
\* build or the execution capability could not be obtained, no step of any
\* call (failing or throwing ones included) changes the binding or what it
\* was decided from, and every call is dispatched to the bound stack.
C11_BindingDecidedOnce ==
    /\ [](API = "MockAPI" <=> (DEV \/ ~ksuExec))
    /\ []DispatchedToBound
    /\ [][API' = API /\ DEV' = DEV /\ ksuExec' = ksuExec]_vars

\* after an earlier saveConfig succeeded, a later saveConfig was rejected with
\* an error, and the call was still served by the real stack bound at start
C11_Witness ==
    /\ pc = "done"
    /\ op = "saveConfig"
    /\ lastSaved.some
    /\ out.kind = "throw"
    /\ cmds # <<>>
    /\ API = "RealAPI"
    /\ ~DEV
    /\ ksuExec

(***************************************************************************)
(* HymoFSTab (routes/HymoFSTab.tsx) over the store's config.               *)
(***************************************************************************)
K_hymofs_stealth == <<104, 121, 109, 111, 102, 115, 95, 115, 116, 101, 97, 108, 116, 104>>

\* const isDirty = createMemo(...)
isDirty(config, snapshot) ==
    IF snapshot = <<>> THEN FALSE ELSE JSONstringify(config) # snapshot

\* the createEffect body: the value of initialConfigStr once the effect has
\* run on config and loading
effectSnapshot(config, loading, snapshot) ==
    IF ~loading /\ Truthy(config)
          /\ (snapshot = <<>> \/ snapshot = JSONstringify(config))
    THEN JSONstringify(config)
    ELSE snapshot

\* { ...store.config, [key]: !store.config[key] }
toggled(config, key) ==
    Spread(config, JObj(<< <<key, JBool(~Truthy(Get(config, key)))>> >>))

\* the tab takes one more of at most MaxTabSteps steps
TabStep == tabSteps < MaxTabSteps /\ tabSteps' = tabSteps + 1

\* what show-config prints when the tab is mounted: a record with
\* hymofs_debug set and no moduledir, or nothing
TabConfigTexts ==
    {JSONstringify(JObj(<< <<K_hymofs_debug, JBool(TRUE)>>, <<K_logfile, JStr(<<>>)>>,
                          <<K_partitions, JArr(<<JStr(<<120>>)>>)>> >>)),
     <<>>}

\* the component right after onMount: nothing loaded yet, the effect found
\* no config, reload() has started the first load
TabInit ==
    /\ hasTextEncoder \in BOOLEAN
    /\ DEV \in BOOLEAN
    /\ ksuExec \in BOOLEAN
    /\ API = Binding(DEV, ksuExec)
    /\ remoteConfig \in TabConfigTexts
    /\ lastSaved = NoSave
    /\ pc = "idle"
    /\ op = "none"
    /\ arg = NoArg
    /\ loc = NoLoc
    /\ cmds = <<>>
    /\ resps = <<>>
    /\ out = Pending
    /\ hexPc = "off"
    /\ hexA = <<>>
    /\ hexB = <<>>
    /\ hexOutA = <<>>
    /\ hexOutB = <<>>
    /\ mounted = TRUE
    /\ store_config = JNull
    /\ store_loading = TRUE
    /\ store_saving = FALSE
    /\ initialConfigStr = <<>>
    /\ loadCall = TRUE
    /\ saveCall = NoSave
    /\ synced = NoSave
    /\ tabSteps = 0

\* reload(), reachable while the refresh button is enabled
Tab_reload ==
    /\ mounted
    /\ TabStep
    /\ ~store_loading
    /\ store_loading' = TRUE
    /\ loadCall' = TRUE
    /\ initialConfigStr' = effectSnapshot(store_config, TRUE, initialConfigStr)
    /\ UNCHANGED <<mounted, store_config, store_saving, saveCall, synced>>
    /\ UNCHANGED <<codecVars, envVars, remoteConfig, lastSaved, callVars>>

\* what API.loadConfig() resolves to on the bound stack
TabLoadResults ==
    IF API = "MockAPI" THEN {MockResult("loadConfig")}
    ELSE {loadConfigResult(r) : r \in ShowConfigResults}

\* store.loadConfig() settles with the loaded config in store.config, then
\* the .then callback of reload() takes the snapshot
Tab_reload_then ==
    /\ mounted
    /\ TabStep
    /\ loadCall
    /\ \E loaded \in TabLoadResults :
           /\ store_config' = loaded
           /\ initialConfigStr' = JSONstringify(loaded)
           /\ synced' = [some |-> TRUE, c |-> loaded]
    /\ store_loading' = FALSE
    /\ loadCall' = FALSE
    /\ UNCHANGED <<mounted, store_saving, saveCall>>
    /\ UNCHANGED <<codecVars, envVars, remoteConfig, lastSaved, callVars>>

\* save(), reachable while the save button is enabled
Tab_save ==
    /\ mounted
    /\ TabStep
    /\ ~store_saving
    /\ isDirty(store_config, initialConfigStr)
    /\ store_saving' = TRUE
    /\ saveCall' = [some |-> TRUE, c |-> store_config]
    /\ UNCHANGED <<mounted, store_config, store_loading, initialConfigStr, loadCall,
                   synced>>
    /\ UNCHANGED <<codecVars, envVars, remoteConfig, lastSaved, callVars>>

\* the --payload token of the pending save
TabSavePayload == stringToHex(JSONstringify(saveCall.c), hasTextEncoder)

\* how API.saveConfig(c) may end on the bound stack
TabSaveOutcomes ==
    IF API = "MockAPI" THEN {Returned(JUndefined)}
    ELSE {writeOutcome(r, MsgSaveConfig) : r \in SaveConfigResults(TabSavePayload)}

\* store.saveConfig() resolves, then the .then callback of save() takes the
\* snapshot of store.config as it is now
Tab_save_then ==
    /\ mounted
    /\ TabStep
    /\ saveCall.some
    /\ \E o \in TabSaveOutcomes : o.kind = "return"
    /\ remoteConfig' = IF API = "MockAPI" THEN remoteConfig
                       ELSE DecodePayload(TabSavePayload).text
    /\ initialConfigStr' = JSONstringify(store_config)
    /\ synced' = [some |-> TRUE, c |-> saveCall.c]
    /\ store_saving' = FALSE
    /\ saveCall' = NoSave
    /\ UNCHANGED <<mounted, store_config, store_loading, loadCall>>
    /\ UNCHANGED <<codecVars, envVars, lastSaved, callVars>>

\* store.saveConfig() fails: the .then callback does not run
Tab_save_rejected ==
    /\ mounted
    /\ TabStep
    /\ saveCall.some
    /\ \E o \in TabSaveOutcomes : o.kind = "throw"
    /\ store_saving' = FALSE
    /\ saveCall' = NoSave
    /\ initialConfigStr' = effectSnapshot(store_config, store_loading, initialConfigStr)
    /\ UNCHANGED <<mounted, store_config, store_loading, loadCall, synced>>
    /\ UNCHANGED <<codecVars, envVars, remoteConfig, lastSaved, callVars>>

\* a switch handler: store.config is replaced, then the effect runs
TabToggle(key) ==
    /\ TabStep
    /\ store_config # JNull
    /\ store_config' = toggled(store_config, key)
    /\ initialConfigStr' =
           effectSnapshot(toggled(store_config, key), store_loading, initialConfigStr)
    /\ UNCHANGED <<mounted, store_loading, store_saving, loadCall, saveCall, synced>>
    /\ UNCHANGED <<codecVars, envVars, remoteConfig, lastSaved, callVars>>

\* toggleDebug()
Tab_toggleDebug ==
    /\ mounted
    /\ TabToggle(K_hymofs_debug)

\* toggleStealth()
Tab_toggleStealth ==
    /\ mounted
    /\ TabToggle(K_hymofs_stealth)

TabNext ==
    \/ Tab_reload
    \/ Tab_reload_then
    \/ Tab_save
    \/ Tab_save_then
    \/ Tab_save_rejected
    \/ Tab_toggleDebug
    \/ Tab_toggleStealth

TabSpec == TabInit /\ [][TabNext]_vars

\* C12: in HymoFSTab, under every interleaving of reload, save, the toggles
\* and the completions of the load and save calls, a snapshot is held only
\* once a load or save has succeeded and then equals the serialization of the
\* config of the last load or save that succeeded, so that isDirty is false
\* only when the in-memory config equals that config by value; a toggle made
\* while a call is in flight is not absorbed into the snapshot.
C12_SnapshotIsLastSynced ==
    /\ initialConfigStr # <<>> => synced.some
    /\ synced.some =>
           /\ initialConfigStr = JSONstringify(synced.c)
           /\ ~isDirty(store_config, initialConfigStr) =>
                  DeepEqual(store_config, synced.c)

(***************************************************************************)
(* Codec specification: stringToHex applied to every pair of bounded       *)
(* strings on both code paths.                                             *)
(***************************************************************************)
\* code units used for codec inputs: LF, '"', 'A', e-acute, L-stroke and
\* the surrogate pair of U+1F600
CodecUnits == {10, 34, 65, 233, 321, 55357, 56832}

CodecStrings == SeqsUpTo(CodecUnits, MaxStrLen)

CodecInit ==
    /\ hasTextEncoder \in BOOLEAN
    /\ hexPc = "input"
    /\ hexA \in CodecStrings
    /\ hexB \in CodecStrings
    /\ hexOutA = <<>>
    /\ hexOutB = <<>>
    /\ TabUnmounted
    /\ DEV = FALSE
    /\ ksuExec = TRUE
    /\ API = Binding(DEV, ksuExec)
    /\ remoteConfig = <<>>
    /\ lastSaved = NoSave
    /\ pc = "idle"
    /\ op = "none"
    /\ arg = NoArg
    /\ loc = NoLoc
    /\ cmds = <<>>
    /\ resps = <<>>
    /\ out = Pending

Encode ==
    /\ hexPc = "input"
    /\ hexPc' = "done"
    /\ hexOutA' = stringToHex(hexA, hasTextEncoder)
    /\ hexOutB' = stringToHex(hexB, hasTextEncoder)
    /\ UNCHANGED <<hexA, hexB, envVars, remoteConfig, lastSaved, callVars, tabVars>>

CodecNext == Encode

CodecSpec == CodecInit /\ [][CodecNext]_vars

\* no surrogate code unit of s stands alone
WellFormed(s) ==
    \A i \in 1..Len(s) :
        /\ IsHighSurrogate(s[i]) => (i < Len(s) /\ IsLowSurrogate(s[i + 1]))
        /\ IsLowSurrogate(s[i]) => (i > 1 /\ IsHighSurrogate(s[i - 1]))

\* the number of bytes of the UTF-8 encoding of a well-formed string: one for
\* ASCII, two below U+0800, three for the rest of the basic plane, and two
\* for each half of a surrogate pair
Utf8ByteLength(s) ==
    Cardinality({i \in 1..Len(s) : s[i] < 128})
        + 2 * Cardinality({i \in 1..Len(s) : s[i] >= 128 /\ s[i] < 2048})
        + 2 * Cardinality({i \in 1..Len(s) : IsHighSurrogate(s[i]) \/ IsLowSurrogate(s[i])})
        + 3 * Cardinality({i \in 1..Len(s) :
                  s[i] >= 2048 /\ ~IsHighSurrogate(s[i]) /\ ~IsLowSurrogate(s[i])})

\* C10: on both code paths, for well-formed inputs, the token of stringToHex
\* consists only of the characters 0-9 and a-f, is exactly twice as long as
\* the input's UTF-8 encoding has bytes, and two different inputs never get
\* the same token.
C10_TokenIsHexOfUtf8 ==
    (hexPc = "done" /\ WellFormed(hexA) /\ WellFormed(hexB)) =>
        /\ \A i \in 1..Len(hexOutA) : IsLowerHexDigit(hexOutA[i])
        /\ Len(hexOutA) = 2 * Utf8ByteLength(hexA)
        /\ hexA # hexB => hexOutA # hexOutB

=============================================================================
